---- MODULE Spec2Model ----
(***************************************************************************)
(* Verification model of the social-graph analytics engine:                *)
(*   - SocialGraph (graph store: load / update)                            *)
(*   - MutualFriendsAnalyzer                                               *)
(*   - FriendshipScoreCalculator                                           *)
(*   - OptimizedDistanceCalculator                                         *)
(* Scores are fixed-point numbers in thousandths (1.5 is 1500).            *)
(***************************************************************************)
EXTENDS Integers, Sequences, FiniteSets, TLC

VARIABLES
    nodes,          \* SocialGraph::nodes     : user_id -> Node
    edges,          \* SocialGraph::edges     : sequence of Edge
    metadata,       \* SocialGraph::metadata
    last_update,    \* SocialGraph::last_update (logical clock of the last successful load)
    loads,          \* number of initializeGraph / updateGraph calls made so far
    lastOp,         \* the last graph-store call, its return value and the load step that failed
    mf_result,      \* the last MutualFriendsResult returned by analyze, with its arguments
    score_cache,    \* FriendshipScoreCalculator::score_cache : <<min,max>> -> score
    stack,          \* the call stack of a running calculateScore
    score_result,   \* the last FriendshipScoreResult returned by calculateScore, with its arguments
    calls,          \* number of public calculator calls made so far
    cache,          \* OptimizedDistanceCalculator::cache        : key -> distance
    result_cache,   \* OptimizedDistanceCalculator::result_cache : key -> PathFindResult
    path_result,    \* the last find_path / calculate_shortest_distance call and what it returned
    communities,    \* the last vector<Community> returned by a CommunityDetector call
    leaderboard,    \* the last vector returned by InfluencerRanker::get_leaderboard, with top_k
    pc,             \* per request thread: the call it runs and the statement it has reached
    ranks,          \* the last map returned by PageRankCalculator::calculate, with its arguments
    recommendations,\* the last vector returned by FriendRecommender::get_recommendations
    index,          \* UserSearchIndex: isBuilt and the trie under root
    search_result,  \* the last vector returned by UserSearchIndex::search, with its arguments
    graphCache,     \* SimpleHTTPServer::graphCache : date -> GraphContext instance
    contexts,       \* the GraphContext instances loadGraphContext has built, with their dates
    request,        \* per server thread: the date it asked for, its position in getGraphContext
    metrics         \* the last CentralityMetrics returned by calculate_metrics

graphVars  == <<nodes, edges, metadata, last_update, loads, lastOp>>
mutualVars == <<mf_result>>
scoreVars  == <<score_cache, stack, score_result>>
pathVars   == <<cache, result_cache, path_result>>
communityVars == <<communities>>
rankVars   == <<leaderboard>>
threadVars == <<pc>>
\* the components added to the engine besides the graph store and the three calculators
pagerankVars == <<ranks>>
recommenderVars == <<recommendations>>
searchVars == <<index, search_result>>
serverVars == <<graphCache, contexts, request>>
centralityVars == <<metrics>>
analysisVars == <<pagerankVars, recommenderVars, searchVars, serverVars, centralityVars>>
featureVars == <<communityVars, rankVars, threadVars, analysisVars>>
vars == <<nodes, edges, metadata, last_update, loads, lastOp, mf_result,
          score_cache, stack, score_result, calls, cache, result_cache, path_result,
          communities, leaderboard, pc, ranks, recommendations, index, search_result,
          graphCache, contexts, request, metrics>>

-----------------------------------------------------------------------------
(* Bounds of the model *)

\* calls of initializeGraph / updateGraph in one behaviour
MaxLoads == 2
\* entries of a nodes source
MaxNodeEntries == 2
\* entries of an edges source
MaxEdgeEntries == 1

-----------------------------------------------------------------------------
(* Generic helpers *)

Min(a, b) == IF a < b THEN a ELSE b
Max(a, b) == IF a < b THEN b ELSE a

SeqsUpTo(S, n) == UNION {[1..k -> S] : k \in 0..n}

Range(s) == {s[i] : i \in DOMAIN s}

\* map[key] = value on a std::map / std::unordered_map
Put(map, key, value) ==
    [x \in (DOMAIN map) \cup {key} |-> IF x = key THEN value ELSE map[x]]

\* iteration order of a std::set<int>: ascending
RECURSIVE SortedSeq(_)
SortedSeq(S) ==
    IF S = {} THEN <<>>
    ELSE LET m == CHOOSE x \in S : \A y \in S : x <= y
         IN <<m>> \o SortedSeq(S \ {m})

-----------------------------------------------------------------------------
(* SocialGraph: data sources *)

NoLocation == [latitude |-> 0, longitude |-> 0]

\* one element of the nodes JSON array; valid = FALSE is an element whose
\* fields cannot be converted (the conversion throws inside the loop)
NodeEntry(id, name, loc, ints) ==
    [valid |-> TRUE, user_id |-> id, name |-> name, location |-> loc, interests |-> ints]
BadEntry == [valid |-> FALSE]

\* one element of the edges JSON array
EdgeEntry(s, t, type, msgs, est) ==
    [valid |-> TRUE, source |-> s, target |-> t, relationship_type |-> type,
     message_count |-> msgs, established_at |-> est]

\* a source: open = FALSE is a file that cannot be opened or parsed
Source(entries) == [open |-> TRUE, entries |-> entries]
Unreadable == [open |-> FALSE, entries |-> <<>>]

EmptyMetadata == [date |-> "", total_nodes |-> 0]

-----------------------------------------------------------------------------
(* SocialGraph: loading *)

MakeNode(e) ==
    [user_id |-> e.user_id, name |-> e.name, location |-> e.location,
     interests |-> e.interests, neighbors |-> {}]

\* nodes[node.user_id] = node
PutNode(ns, id, node) ==
    [x \in (DOMAIN ns) \cup {id} |-> IF x = id THEN node ELSE ns[x]]

RECURSIVE LoadNodesLoop(_, _, _)
LoadNodesLoop(ns, entries, i) ==
    IF i > Len(entries) THEN [ok |-> TRUE, nodes |-> ns]
    ELSE IF ~entries[i].valid THEN [ok |-> FALSE, nodes |-> ns]
    ELSE LoadNodesLoop(PutNode(ns, entries[i].user_id, MakeNode(entries[i])), entries, i + 1)

loadNodesFromJSON(ns, file) ==
    IF ~file.open THEN [ok |-> FALSE, nodes |-> ns]
    ELSE LoadNodesLoop(ns, file.entries, 1)

MakeEdge(e) ==
    [source |-> e.source, target |-> e.target, relationship_type |-> e.relationship_type,
     message_count |-> e.message_count, established_at |-> e.established_at]

\* nodes[a].neighbors.insert(b)
InsertNeighbor(ns, a, b) ==
    [ns EXCEPT ![a].neighbors = @ \cup {b}]

\* Update adjacency list - only if both nodes exist
UpdateAdjacency(ns, e) ==
    IF e.source \in DOMAIN ns /\ e.target \in DOMAIN ns
    THEN InsertNeighbor(InsertNeighbor(ns, e.source, e.target), e.target, e.source)
    ELSE ns

RECURSIVE LoadEdgesLoop(_, _, _, _)
LoadEdgesLoop(ns, es, entries, i) ==
    IF i > Len(entries) THEN [ok |-> TRUE, nodes |-> ns, edges |-> es]
    ELSE IF ~entries[i].valid THEN [ok |-> FALSE, nodes |-> ns, edges |-> es]
    ELSE LoadEdgesLoop(UpdateAdjacency(ns, entries[i]),
                       Append(es, MakeEdge(entries[i])), entries, i + 1)

loadEdgesFromJSON(ns, es, file) ==
    IF ~file.open THEN [ok |-> FALSE, nodes |-> ns, edges |-> es]
    ELSE LoadEdgesLoop(ns, <<>>, file.entries, 1)

\* kind: "unreadable" (cannot open / parse), "no_total" (date present,
\* total_nodes missing: the conversion throws after metadata.date is set), "ok"
loadMetadataFromJSON(md, file) ==
    CASE file.kind = "unreadable" -> [ok |-> FALSE, metadata |-> md]
      [] file.kind = "no_total"   -> [ok |-> FALSE, metadata |-> [md EXCEPT !.date = file.date]]
      [] OTHER -> [ok |-> TRUE, metadata |-> [date |-> file.date, total_nodes |-> file.total_nodes]]

\* the state of the store as a record
Store(ns, es, md, lu) == [nodes |-> ns, edges |-> es, metadata |-> md, last_update |-> lu]

\* initializeGraph: returns [ret, failed, store]
initializeGraphOn(st, nf, ef, mf, now) ==
    LET n == loadNodesFromJSON(st.nodes, nf)
        e == loadEdgesFromJSON(n.nodes, st.edges, ef)
        m == loadMetadataFromJSON(st.metadata, mf)
    IN IF ~n.ok THEN
           [ret |-> FALSE, failed |-> "nodes",
            store |-> Store(n.nodes, st.edges, st.metadata, st.last_update)]
       ELSE IF ~e.ok THEN
           [ret |-> FALSE, failed |-> "edges",
            store |-> Store(e.nodes, e.edges, st.metadata, st.last_update)]
       ELSE IF ~m.ok THEN
           [ret |-> FALSE, failed |-> "metadata",
            store |-> Store(e.nodes, e.edges, m.metadata, st.last_update)]
       ELSE
           [ret |-> TRUE, failed |-> "none",
            store |-> Store(e.nodes, e.edges, m.metadata, now)]

\* Clear neighbors but keep nodes
ClearNeighbors(ns) == [x \in DOMAIN ns |-> [ns[x] EXCEPT !.neighbors = {}]]

\* (mutant) the restore forgets the node map, whose neighbor sets were cleared
RestoreBackupEdgesOnly(backup, partial) == [backup EXCEPT !.nodes = partial.nodes]

\* what updateGraph puts back when a load step fails
RestoreBackup(backup, partial) == backup

\* updateGraph: returns [ret, failed, store]
updateGraphOn(st, nf, ef, mf, now) ==
    LET backup == st
        cleared == ClearNeighbors(st.nodes)
        n == loadNodesFromJSON(cleared, nf)
        e == loadEdgesFromJSON(n.nodes, st.edges, ef)
        m == loadMetadataFromJSON(st.metadata, mf)
    IN IF ~n.ok THEN
           [ret |-> FALSE, failed |-> "nodes",
            store |-> RestoreBackup(backup, Store(n.nodes, st.edges, st.metadata, st.last_update))]
       ELSE IF ~e.ok THEN
           [ret |-> FALSE, failed |-> "edges",
            store |-> RestoreBackup(backup, Store(e.nodes, e.edges, st.metadata, st.last_update))]
       ELSE IF ~m.ok THEN
           [ret |-> FALSE, failed |-> "metadata",
            store |-> RestoreBackup(backup, Store(e.nodes, e.edges, m.metadata, st.last_update))]
       ELSE
           [ret |-> TRUE, failed |-> "none",
            store |-> Store(e.nodes, e.edges, m.metadata, now)]

-----------------------------------------------------------------------------
(* SocialGraph: accessors *)

getNode(id) == id \in DOMAIN nodes

getNeighbors(id) == IF id \in DOMAIN nodes THEN nodes[id].neighbors ELSE {}

-----------------------------------------------------------------------------
(* SocialGraph: the data sources a load may be given *)

StoreUser(id) == NodeEntry(id, "user", NoLocation, <<>>)

\* users 1 and 2, and an element that cannot be converted
StoreNodeEntries == {StoreUser(1), StoreUser(2), BadEntry}

\* an edge between existing users, an edge with a dangling endpoint,
\* and an element that cannot be converted
StoreEdgeEntries ==
    {EdgeEntry(1, 2, "friend", 0, <<>>), EdgeEntry(1, 3, "fan", 0, <<>>), BadEntry}

StoreNodeFiles == {Unreadable} \cup {Source(es) : es \in SeqsUpTo(StoreNodeEntries, MaxNodeEntries)}

StoreEdgeFiles == {Unreadable} \cup {Source(es) : es \in SeqsUpTo(StoreEdgeEntries, MaxEdgeEntries)}

StoreMetadataFiles ==
    { [kind |-> "unreadable", date |-> "",   total_nodes |-> 0],
      [kind |-> "no_total",   date |-> "d1", total_nodes |-> 0],
      [kind |-> "ok",         date |-> "d2", total_nodes |-> 2] }

-----------------------------------------------------------------------------
(* State after construction *)

InitGraphEmpty ==
    /\ nodes = << >>
    /\ edges = << >>
    /\ metadata = EmptyMetadata
    /\ last_update = 0
    /\ loads = 0
    /\ lastOp = [op |-> "none", ret |-> TRUE, failed |-> "none"]

NoMutualResult == [called |-> FALSE]
NoScoreResult == [called |-> FALSE]
NoPathResult == [called |-> FALSE]
NoCommunities == [called |-> FALSE]
NoLeaderboard == [called |-> FALSE]

\* the request threads of the server, and a thread that runs no call
Threads == {1, 2}
Idle == [at |-> "idle"]

NoRanks == [called |-> FALSE]
NoRecommendations == [called |-> FALSE]
NoSearchResult == [called |-> FALSE]
NoMetrics == [called |-> FALSE]
\* UserSearchIndex(): an empty root, isBuilt false
UnbuiltIndex == [isBuilt |-> FALSE, root |-> << >>]
NoRequest == [at |-> "idle"]

InitCalculators ==
    /\ mf_result = NoMutualResult
    /\ score_cache = << >>
    /\ stack = << >>
    /\ score_result = NoScoreResult
    /\ calls = 0
    /\ cache = << >>
    /\ result_cache = << >>
    /\ path_result = NoPathResult
    /\ communities = NoCommunities
    /\ leaderboard = NoLeaderboard
    /\ pc = [t \in Threads |-> Idle]
    /\ ranks = NoRanks
    /\ recommendations = NoRecommendations
    /\ index = UnbuiltIndex
    /\ search_result = NoSearchResult
    /\ graphCache = << >>
    /\ contexts = << >>
    /\ request = [t \in Threads |-> NoRequest]
    /\ metrics = NoMetrics

CurrentStore == Store(nodes, edges, metadata, last_update)

SetStore(st) ==
    /\ nodes' = st.nodes
    /\ edges' = st.edges
    /\ metadata' = st.metadata
    /\ last_update' = st.last_update

-----------------------------------------------------------------------------
(* SocialGraph: operations *)

InitializeGraph ==
    /\ loads < MaxLoads
    /\ \E nf \in StoreNodeFiles, ef \in StoreEdgeFiles, mf \in StoreMetadataFiles :
          LET r == initializeGraphOn(CurrentStore, nf, ef, mf, loads + 1)
          IN /\ SetStore(r.store)
             /\ lastOp' = [op |-> "initializeGraph", ret |-> r.ret, failed |-> r.failed]
    /\ loads' = loads + 1
    /\ UNCHANGED <<featureVars, mutualVars, scoreVars, pathVars, calls>>

UpdateGraph ==
    /\ loads < MaxLoads
    /\ \E nf \in StoreNodeFiles, ef \in StoreEdgeFiles, mf \in StoreMetadataFiles :
          LET r == updateGraphOn(CurrentStore, nf, ef, mf, loads + 1)
          IN /\ SetStore(r.store)
             /\ lastOp' = [op |-> "updateGraph", ret |-> r.ret, failed |-> r.failed]
    /\ loads' = loads + 1
    /\ UNCHANGED <<featureVars, mutualVars, scoreVars, pathVars, calls>>

InitGraph == InitGraphEmpty /\ InitCalculators

NextGraph == InitializeGraph \/ UpdateGraph

SpecGraph == InitGraph /\ [][NextGraph]_vars

-----------------------------------------------------------------------------
(* SocialGraph: directed and friend adjacency *)

\* getFollowing: directed out-adjacency, the targets of the user's edges
getFollowing(id) ==
    IF id \notin DOMAIN nodes THEN {}
    ELSE {edges[i].target : i \in {j \in DOMAIN edges :
              edges[j].source = id /\ edges[j].target \in DOMAIN nodes}}

\* getFollowers: directed in-adjacency, the sources of the edges that target the user
getFollowers(id) ==
    IF id \notin DOMAIN nodes THEN {}
    ELSE {edges[i].source : i \in {j \in DOMAIN edges :
              edges[j].target = id /\ edges[j].source \in DOMAIN nodes}}

\* getFriends: the users with a bidirectional relationship with the user
getFriends(id) == getFollowing(id) \cap getFollowers(id)

-----------------------------------------------------------------------------
(* The graphs the analyzers are run on: users 1..3 loaded by a successful   *)
(* initializeGraph; 4 is an ID that is absent from the graph.               *)

Users == {1, 2, 3}
QueryIds == Users \cup {4}

\* the unordered pairs of users, in the order their edges are listed
UserPairs == << <<1, 2>>, <<1, 3>>, <<2, 3>> >>

\* how a pair is related: no edge, one edge either way, or one edge each way
PairShapes == {"none", "forward", "backward", "both"}

\* the edge attributes of a graph: relationship_type, message_count, established_at
\* (a date is <<year, month, day>>, the empty string is << >>)
EdgeProfiles ==
    { [relationship_type |-> "fan",    message_count |-> 0,    established_at |-> << >>],
      [relationship_type |-> "friend", message_count |-> 400,  established_at |-> <<2023, 10, 1>>],
      [relationship_type |-> "friend", message_count |-> 2000, established_at |-> <<2020, 1, 15>>] }
PlainEdges == [relationship_type |-> "fan", message_count |-> 0, established_at |-> << >>]

\* the node attributes of a graph: users on the equator, longitude in degrees
NodeProfiles ==
    { [longitude |-> [u \in Users |-> 10],     interests |-> [u \in Users |-> <<"a", "b", "c", "d", "e">>]],
      [longitude |-> [u \in Users |-> 20 * u], interests |-> [u \in Users |-> <<"a">>]] }
PlainNodes == [longitude |-> [u \in Users |-> 0], interests |-> [u \in Users |-> << >>]]

PairEdges(pair, shape, ep) ==
    LET fwd == EdgeEntry(pair[1], pair[2], ep.relationship_type, ep.message_count, ep.established_at)
        bwd == EdgeEntry(pair[2], pair[1], ep.relationship_type, ep.message_count, ep.established_at)
    IN CASE shape = "none"     -> << >>
         [] shape = "forward"  -> <<fwd>>
         [] shape = "backward" -> <<bwd>>
         [] OTHER              -> <<fwd, bwd>>

\* the edges source of a graph whose pairs have the shapes sh
EdgesSource(sh, ep) ==
    Source(PairEdges(UserPairs[1], sh[1], ep) \o PairEdges(UserPairs[2], sh[2], ep)
           \o PairEdges(UserPairs[3], sh[3], ep))

NodesSource(np) ==
    Source([i \in 1..3 |-> NodeEntry(i, "user", [latitude |-> 0, longitude |-> np.longitude[i]],
                                     np.interests[i])])

OkMetadata == [kind |-> "ok", date |-> "d2", total_nodes |-> 3]

\* the store after a successful initializeGraph of such a graph
LoadedGraph(sh, ep, np) ==
    initializeGraphOn(Store(<< >>, << >>, EmptyMetadata, 0),
                      NodesSource(np), EdgesSource(sh, ep), OkMetadata, 1).store

InitLoaded(eps, nps) ==
    \E sh \in [1..3 -> PairShapes], ep \in eps, np \in nps :
        LET st == LoadedGraph(sh, ep, np)
        IN /\ nodes = st.nodes
           /\ edges = st.edges
           /\ metadata = st.metadata
           /\ last_update = st.last_update
           /\ loads = 1
           /\ lastOp = [op |-> "initializeGraph", ret |-> TRUE, failed |-> "none"]

-----------------------------------------------------------------------------
(* Bounds of the analyzer models *)

\* public calls on one calculator in one behaviour
MaxCalls == 2

\* the values an int that was never initialized may hold
Indeterminate == {0, 77}

-----------------------------------------------------------------------------
(* MutualFriendsAnalyzer *)

SmallerSet(friends_1, friends_2) ==
    IF Cardinality(friends_1) < Cardinality(friends_2) THEN friends_1 ELSE friends_2

LargerSet(friends_1, friends_2) ==
    IF Cardinality(friends_1) <= Cardinality(friends_2) THEN friends_2 ELSE friends_1

\* for (int friend_id : smaller) if (larger.count(friend_id)) push_back
IntersectInto(smaller, larger) ==
    SelectSeq(SortedSeq(smaller), LAMBDA f : f \in larger)

\* (mutant) the intersection is counted twice, as in a Dice coefficient
RatioCountingTwice(n, d) == (2000 * n) \div d

\* similarity in thousandths
Ratio(n, d) == (1000 * n) \div d

\* analyze(user_id_1, user_id_2); junk1, junk2 are what the two degree fields
\* hold when the function returns before assigning them
analyze(user_id_1, user_id_2, junk1, junk2) ==
    LET friends_1 == getFriends(user_id_1)
        friends_2 == getFriends(user_id_2)
        mutual_ids == IntersectInto(SmallerSet(friends_1, friends_2),
                                    LargerSet(friends_1, friends_2))
        union_size == Cardinality(friends_1) + Cardinality(friends_2) - Len(mutual_ids)
    IN IF ~getNode(user_id_1) \/ ~getNode(user_id_2) THEN
           [user_id_1 |-> user_id_1, user_id_2 |-> user_id_2, mutual_ids |-> << >>,
            similarity_ratio |-> 0, total_degree_1 |-> junk1, total_degree_2 |-> junk2]
       ELSE IF friends_1 = {} \/ friends_2 = {} THEN
           [user_id_1 |-> user_id_1, user_id_2 |-> user_id_2, mutual_ids |-> << >>,
            similarity_ratio |-> 0,
            total_degree_1 |-> Cardinality(friends_1), total_degree_2 |-> Cardinality(friends_2)]
       ELSE
           [user_id_1 |-> user_id_1, user_id_2 |-> user_id_2, mutual_ids |-> mutual_ids,
            similarity_ratio |-> IF union_size = 0 THEN 0 ELSE Ratio(Len(mutual_ids), union_size),
            total_degree_1 |-> Cardinality(friends_1), total_degree_2 |-> Cardinality(friends_2)]

Analyze ==
    /\ calls < MaxCalls
    /\ \E u1 \in QueryIds, u2 \in QueryIds, j1 \in Indeterminate, j2 \in Indeterminate :
          mf_result' = [called |-> TRUE, result |-> analyze(u1, u2, j1, j2)]
    /\ calls' = calls + 1
    /\ UNCHANGED <<featureVars, graphVars, scoreVars, pathVars>>

InitMutual == InitLoaded({PlainEdges}, {PlainNodes}) /\ InitCalculators

NextMutual == Analyze

SpecMutual == InitMutual /\ [][NextMutual]_vars

-----------------------------------------------------------------------------
(* AlgoUtils, in thousandths *)

\* calculate_haversine_distance in km, for two points on the equator at most
\* 180 degrees apart: there a = sin^2(dlon/2) and c = |dlon| in radians, so the
\* distance is 6371 * pi / 180 = 111.195 km per degree of longitude
calculate_haversine_distance(lat1, lon1, lat2, lon2) ==
    (111195 * (IF lon1 < lon2 THEN lon2 - lon1 ELSE lon1 - lon2)) \div 1000

set_intersection_of_two(set_a, set_b) == set_a \cap set_b

\* the items of list_a that occur in list_b, in list_a's order
find_common_items(list_a, list_b) ==
    SelectSeq(list_a, LAMBDA item : item \in Range(list_b))

normalize_to_01(value, max_value) ==
    IF max_value <= 0 THEN 0
    ELSE Min(1000, Max(0, (1000 * value) \div max_value))

-----------------------------------------------------------------------------
(* FriendshipScoreCalculator *)

\* the recursion depth after which calculateScoreInternal returns the neutral score
DepthCap == 2
\* frames of the call stack that may be pushed in one behaviour
MaxStack == 10
\* calls of calculateScore in one behaviour
MaxScoreCalls == 2

\* the first edge of the list between the two nodes, in either direction;
\* 0 stands for nullptr
getEdge(node1, node2) ==
    LET hits == {i \in DOMAIN edges :
                    \/ (edges[i].source = node1 /\ edges[i].target = node2)
                    \/ (edges[i].source = node2 /\ edges[i].target = node1)}
    IN IF hits = {} THEN 0 ELSE CHOOSE i \in hits : \A j \in hits : i <= j

\* days = year * 365 + month * 30 + day; 0 for the empty string
parseDate(date_str) ==
    IF date_str = << >> THEN 0
    ELSE date_str[1] * 365 + date_str[2] * 30 + date_str[3]

calculateTimeFactor(established_at) ==
    IF established_at = << >> THEN 0
    ELSE LET connection_date == parseDate(established_at)
             current_date == 2024 * 365 + 1 * 30 + 5
             days_connected == Max(0, current_date - connection_date)
         IN IF connection_date = 0 THEN 0
            ELSE Min(1000, (1000 * days_connected) \div 365)

calculateGeographicProximity(lat1, lon1, lat2, lon2) ==
    Max(0, 1000 - calculate_haversine_distance(lat1, lon1, lat2, lon2))

\* (mutant) the lower end of the two ranges is not enforced
ClampScoreUpperOnly(are_friends, raw_score) ==
    IF are_friends THEN Min(2000, raw_score) ELSE Min(3000, raw_score)

\* Friends: clamp to [1.0, 2.0]; non-friends: clamp to [2.0, 3.0]
ClampScore(are_friends, raw_score) ==
    IF are_friends THEN Max(1000, Min(2000, raw_score))
    ELSE Max(2000, Min(3000, raw_score))

\* the body of calculateScoreInternal after calculateMutualFriendsScore returned
\* mutual_friends_score
ScoreOf(node1, node2, mutual_friends_score) ==
    LET n1 == nodes[node1]
        n2 == nodes[node2]
        edge == getEdge(node1, node2)
        are_friends == \/ node2 \in getFriends(node1)
                       \/ node1 \in getFriends(node2)
                       \/ (edge # 0 /\ edges[edge].relationship_type = "friend")
        message_count == IF edge # 0 THEN edges[edge].message_count ELSE 0
        established_at == IF edge # 0 THEN edges[edge].established_at ELSE << >>
        mutual_count == Cardinality(set_intersection_of_two(getFriends(node1), getFriends(node2)))
        time_factor == calculateTimeFactor(established_at)
        geo_proximity == calculateGeographicProximity(
                             n1.location.latitude, n1.location.longitude,
                             n2.location.latitude, n2.location.longitude)
        interests_count == Len(find_common_items(n1.interests, n2.interests))
        base_score == IF are_friends THEN 1500 ELSE 2500
        mutual_factor == IF mutual_count > 0
                         THEN 0 - ((300 * normalize_to_01(mutual_count, 10)) \div 1000) ELSE 0
        message_factor == IF message_count > 0
                          THEN 0 - ((250 * normalize_to_01(message_count, 1000)) \div 1000) ELSE 0
        transitive_factor == IF mutual_friends_score < 1500
                             THEN 0 - ((150 * (((1500 - mutual_friends_score) * 1000) \div 500)) \div 1000)
                             ELSE 0
        time_factor_impact == 0 - ((150 * time_factor) \div 1000)
        geo_factor == 0 - ((100 * geo_proximity) \div 1000)
        interests_factor == IF interests_count > 0
                            THEN 0 - ((100 * normalize_to_01(interests_count, 5)) \div 1000) ELSE 0
        raw_score == base_score + mutual_factor + message_factor + transitive_factor
                     + time_factor_impact + geo_factor + interests_factor
    IN [friendship_score |-> ClampScore(are_friends, raw_score),
        are_friends |-> are_friends,
        mutual_friends_count |-> mutual_count,
        message_count |-> message_count,
        mutual_friends_score |-> mutual_friends_score,
        time_factor |-> time_factor,
        geographic_proximity |-> geo_proximity,
        common_interests_count |-> interests_count]

\* a result of which only the score and the flag were assigned
BareResult(score, junk) ==
    [friendship_score |-> score, are_friends |-> FALSE,
     mutual_friends_count |-> junk, message_count |-> junk, mutual_friends_score |-> junk,
     time_factor |-> junk, geographic_proximity |-> junk, common_interests_count |-> junk]

\* key of the score cache: make_pair(min, max)
ScoreKey(a, b) == <<Min(a, b), Max(a, b)>>

InternalFrame(node1, node2, depth) ==
    [fn |-> "calculateScoreInternal", node1 |-> node1, node2 |-> node2, depth |-> depth]

\* calculateMutualFriendsScore at the head of its loop: mutual is what is left
\* of mutual_friends, second tells whether score1 of the head is already known
MutualFrame(node1, node2) ==
    [fn |-> "calculateMutualFriendsScore", node1 |-> node1, node2 |-> node2,
     mutual |-> SortedSeq(set_intersection_of_two(getFriends(node1), getFriends(node2))),
     second |-> FALSE, score1 |-> 1500, total_score |-> 0, count |-> 0]

Top == stack[Len(stack)]
Pop(stk) == SubSeq(stk, 1, Len(stk) - 1)

\* the loop of calculateMutualFriendsScore takes a sub-score: score1 first,
\* then score2, which ends the iteration
TakeScore(f, score) ==
    IF ~f.second THEN [f EXCEPT !.score1 = score, !.second = TRUE]
    ELSE [f EXCEPT !.total_score = @ + ((f.score1 + score) \div 2),
                   !.count = @ + 1,
                   !.mutual = Tail(@),
                   !.second = FALSE]

\* the calculateScoreInternal on top of stk returns result to its caller: the
\* loop of calculateMutualFriendsScore below it, or calculateScore, which
\* stores the score in the cache and returns the result
ReturnInternal(stk, result) ==
    LET f == stk[Len(stk)]
        below == Pop(stk)
    IN IF below = << >> THEN
           /\ stack' = << >>
           /\ score_cache' = Put(score_cache, ScoreKey(f.node1, f.node2), result.friendship_score)
           /\ score_result' = [called |-> TRUE, node1 |-> f.node1, node2 |-> f.node2,
                               result |-> result]
       ELSE
           /\ stack' = [below EXCEPT ![Len(below)] = TakeScore(@, result.friendship_score)]
           /\ UNCHANGED <<score_cache, score_result>>

\* calculateScore(node1, node2) is called
CalculateScore ==
    /\ stack = << >>
    /\ calls < MaxScoreCalls
    /\ \E node1 \in QueryIds, node2 \in QueryIds :
          stack' = <<InternalFrame(node1, node2, 0)>>
    /\ score_result' = NoScoreResult
    /\ calls' = calls + 1
    /\ UNCHANGED <<featureVars, graphVars, mutualVars, pathVars, score_cache>>

\* calculateScoreInternal up to its call of calculateMutualFriendsScore
EnterInternal ==
    /\ stack # << >>
    /\ Top.fn = "calculateScoreInternal"
    /\ IF Top.depth > DepthCap THEN
           \E junk \in Indeterminate : ReturnInternal(stack, BareResult(1500, junk))
       ELSE IF ~getNode(Top.node1) \/ ~getNode(Top.node2) THEN
           \E junk \in Indeterminate : ReturnInternal(stack, BareResult(3000, junk))
       ELSE
           /\ Len(stack) < MaxStack
           /\ stack' = Append(stack, MutualFrame(Top.node1, Top.node2))
           /\ UNCHANGED <<score_cache, score_result>>
    /\ UNCHANGED <<featureVars, graphVars, mutualVars, pathVars, calls>>

\* one sub-score of the loop of calculateMutualFriendsScore: read from the
\* cache, or computed by calculateScoreInternal(node, mutual, 1)
ScoreMutualFriend ==
    /\ stack # << >>
    /\ Top.fn = "calculateMutualFriendsScore"
    /\ Top.mutual # << >>
    /\ LET f == Top
           node == IF f.second THEN f.node2 ELSE f.node1
           key == ScoreKey(node, Head(f.mutual))
       IN IF key \in DOMAIN score_cache THEN
              stack' = [stack EXCEPT ![Len(stack)] = TakeScore(f, score_cache[key])]
          ELSE
              /\ Len(stack) < MaxStack
              /\ stack' = Append(stack, InternalFrame(node, Head(f.mutual), 1))
    /\ UNCHANGED <<featureVars, graphVars, mutualVars, pathVars, calls, score_cache, score_result>>

\* calculateMutualFriendsScore returns the average (1.5 without mutual friends)
\* and calculateScoreInternal computes its result and returns it
FinishInternal ==
    /\ stack # << >>
    /\ Top.fn = "calculateMutualFriendsScore"
    /\ Top.mutual = << >>
    /\ LET f == Top
           mutual_friends_score == IF f.count > 0 THEN f.total_score \div f.count ELSE 1500
           result == ScoreOf(f.node1, f.node2, mutual_friends_score)
       IN ReturnInternal(Pop(stack), result)
    /\ UNCHANGED <<featureVars, graphVars, mutualVars, pathVars, calls>>

\* clearCache()
ClearScoreCache ==
    /\ stack = << >>
    /\ score_cache # << >>
    /\ score_cache' = << >>
    /\ UNCHANGED <<featureVars, graphVars, mutualVars, pathVars, calls, stack, score_result>>

InitScore == InitLoaded(EdgeProfiles, NodeProfiles) /\ InitCalculators

NextScore ==
    \/ CalculateScore
    \/ EnterInternal
    \/ ScoreMutualFriend
    \/ FinishInternal
    \/ ClearScoreCache

SpecScore == InitScore /\ [][NextScore]_vars

-----------------------------------------------------------------------------
(* OptimizedDistanceCalculator *)

Reverse(s) == [i \in 1..Len(s) |-> s[Len(s) + 1 - i]]

\* encode_pair: the pair is ordered (smaller ID first) and then encoded as
\* source * 10^9 + target, which for IDs in 0 .. 10^9 - 1 is one number per
\* ordered pair; the key is kept as that pair
encode_pair(source, target) ==
    IF source > target THEN <<target, source>> ELSE <<source, target>>

\* (mutant) the hop count is taken to be the number of nodes
create_success_result_node_count(path_nodes) ==
    [path_exists |-> TRUE, path_node_ids |-> path_nodes,
     path_length |-> Len(path_nodes), path_description |-> path_nodes]

\* the description lists the path's IDs, joined by " -> "
create_success_result(path_nodes) ==
    [path_exists |-> TRUE, path_node_ids |-> path_nodes,
     path_length |-> Len(path_nodes) - 1, path_description |-> path_nodes]

\* (mutant) a missing path is given length 0
create_failure_result_zero_length ==
    [path_exists |-> FALSE, path_node_ids |-> << >>,
     path_length |-> 0, path_description |-> << >>]

create_failure_result ==
    [path_exists |-> FALSE, path_node_ids |-> << >>,
     path_length |-> -1, path_description |-> << >>]

\* while (current != -1) { push_back(current); follow parent or stop }
RECURSIVE ParentChain(_, _)
ParentChain(current, parent) ==
    IF current = -1 THEN << >>
    ELSE IF current \in DOMAIN parent
         THEN <<current>> \o ParentChain(parent[current], parent)
         ELSE <<current>>

reconstruct_path(meeting_node, parent_src, parent_tgt) ==
    LET path_forward == Reverse(ParentChain(meeting_node, parent_src))
        path_backward == ParentChain(meeting_node, parent_tgt)
    IN path_forward \o Tail(path_backward)

OtherSide(side) == IF side = "src" THEN "tgt" ELSE "src"

\* the loop over the outgoing set of u, for the search of one side:
\* b.dist, b.parent and b.q hold dist_src / dist_tgt, parent_src / parent_tgt
\* and q_src / q_tgt under the keys "src" and "tgt"
RECURSIVE ExpandOutgoing(_, _, _, _, _)
ExpandOutgoing(b, side, u, outgoing, k) ==
    IF k > Len(outgoing) THEN b
    ELSE LET v == outgoing[k] IN
         IF v \in DOMAIN b.dist[OtherSide(side)] THEN
             \* reached from the other direction
             LET b1 == IF v \notin DOMAIN b.parent[side]
                       THEN [b EXCEPT !.parent[side] = Put(@, v, u),
                                      !.dist[side] = Put(@, v, b.dist[side][u] + 1)]
                       ELSE b
             IN [b1 EXCEPT !.meeting_node = v, !.found = TRUE]
         ELSE IF v \notin DOMAIN b.dist[side] THEN
             \* mark as visited
             ExpandOutgoing([b EXCEPT !.dist[side] = Put(@, v, b.dist[side][u] + 1),
                                      !.parent[side] = Put(@, v, u),
                                      !.q[side] = Append(@, v)],
                            side, u, outgoing, k + 1)
         ELSE ExpandOutgoing(b, side, u, outgoing, k + 1)

\* for (int i = 0; i < level_size && !found; i++): process one level
RECURSIVE ExpandLevel(_, _, _, _)
ExpandLevel(b, side, i, level_size) ==
    IF i >= level_size \/ b.found THEN b
    ELSE LET u == Head(b.q[side])
             popped == [b EXCEPT !.q[side] = Tail(@)]
         IN ExpandLevel(ExpandOutgoing(popped, side, u, SortedSeq(getFollowing(u)), 1),
                        side, i + 1, level_size)

\* while ((!q_src.empty() || !q_tgt.empty()) && !found)
RECURSIVE BidirectionalLoop(_)
BidirectionalLoop(b) ==
    IF (b.q["src"] = << >> /\ b.q["tgt"] = << >>) \/ b.found THEN b
    ELSE LET fwd == IF b.q["src"] # << >>
                    THEN ExpandLevel(b, "src", 0, Len(b.q["src"])) ELSE b
         IN IF fwd.found THEN fwd
            ELSE BidirectionalLoop(IF fwd.q["tgt"] # << >>
                                   THEN ExpandLevel(fwd, "tgt", 0, Len(fwd.q["tgt"]))
                                   ELSE fwd)

bidirectional_bfs(source_id, target_id) ==
    IF source_id = target_id THEN create_success_result(<<source_id>>)
    ELSE LET start == [dist   |-> [src |-> Put(<< >>, source_id, 0),  tgt |-> Put(<< >>, target_id, 0)],
                       parent |-> [src |-> Put(<< >>, source_id, -1), tgt |-> Put(<< >>, target_id, -1)],
                       q      |-> [src |-> <<source_id>>, tgt |-> <<target_id>>],
                       meeting_node |-> -1, found |-> FALSE]
             end == BidirectionalLoop(start)
         IN IF ~end.found THEN create_failure_result
            ELSE create_success_result(
                     reconstruct_path(end.meeting_node, end.parent["src"], end.parent["tgt"]))

\* for (int v : outgoing) if (!dist.count(v)) { dist, parent, push }
RECURSIVE VisitOutgoing(_, _, _, _)
VisitOutgoing(b, u, outgoing, k) ==
    IF k > Len(outgoing) THEN b
    ELSE LET v == outgoing[k] IN
         IF v \notin DOMAIN b.dist
         THEN VisitOutgoing([b EXCEPT !.dist = Put(@, v, b.dist[u] + 1),
                                      !.parent = Put(@, v, u),
                                      !.q = Append(@, v)], u, outgoing, k + 1)
         ELSE VisitOutgoing(b, u, outgoing, k + 1)

RECURSIVE SimpleLoop(_, _)
SimpleLoop(b, target_id) ==
    IF b.q = << >> THEN create_failure_result
    ELSE LET u == Head(b.q)
             popped == [b EXCEPT !.q = Tail(@)]
         IN IF u = target_id
            THEN create_success_result(Reverse(ParentChain(target_id, b.parent)))
            ELSE SimpleLoop(VisitOutgoing(popped, u, SortedSeq(getFollowing(u)), 1), target_id)

simple_bfs(source_id, target_id) ==
    IF source_id = target_id THEN create_success_result(<<source_id>>)
    ELSE SimpleLoop([dist |-> Put(<< >>, source_id, 0), parent |-> Put(<< >>, source_id, -1),
                     q |-> <<source_id>>], target_id)

compute_path_internal(source_id, target_id) ==
    LET result == bidirectional_bfs(source_id, target_id)
    IN IF ~result.path_exists THEN simple_bfs(source_id, target_id) ELSE result

\* find_path(source_id, target_id)
FindPath ==
    /\ calls < MaxCalls
    /\ \E source_id \in QueryIds, target_id \in QueryIds :
          LET key == encode_pair(source_id, target_id)
              result == compute_path_internal(source_id, target_id)
          IN IF key \in DOMAIN result_cache THEN
                 /\ path_result' = [called |-> TRUE, op |-> "find_path", source |-> source_id,
                                    target |-> target_id, result |-> result_cache[key]]
                 /\ UNCHANGED <<cache, result_cache>>
             ELSE
                 /\ result_cache' = Put(result_cache, key, result)
                 /\ cache' = IF result.path_exists
                             THEN Put(cache, key, result.path_length) ELSE cache
                 /\ path_result' = [called |-> TRUE, op |-> "find_path", source |-> source_id,
                                    target |-> target_id, result |-> result]
    /\ calls' = calls + 1
    /\ UNCHANGED <<featureVars, graphVars, mutualVars, scoreVars>>

\* calculate_shortest_distance(source_id, target_id)
CalculateShortestDistance ==
    /\ calls < MaxCalls
    /\ \E source_id \in QueryIds, target_id \in QueryIds :
          LET key == encode_pair(source_id, target_id)
              result == compute_path_internal(source_id, target_id)
              returned(d) == [called |-> TRUE, op |-> "calculate_shortest_distance",
                              source |-> source_id, target |-> target_id, result |-> d]
          IN IF source_id = target_id THEN
                 /\ path_result' = returned(0)
                 /\ UNCHANGED <<cache, result_cache>>
             ELSE IF key \in DOMAIN cache THEN
                 /\ path_result' = returned(cache[key])
                 /\ UNCHANGED <<cache, result_cache>>
             ELSE
                 /\ result_cache' = Put(result_cache, key, result)
                 /\ cache' = Put(cache, key, IF result.path_exists THEN result.path_length ELSE -1)
                 /\ path_result' = returned(result.path_length)
    /\ calls' = calls + 1
    /\ UNCHANGED <<featureVars, graphVars, mutualVars, scoreVars>>

\* clear_cache()
ClearCache ==
    /\ cache # << >> \/ result_cache # << >>
    /\ cache' = << >>
    /\ result_cache' = << >>
    /\ UNCHANGED <<featureVars, graphVars, mutualVars, scoreVars, calls, path_result>>

InitPath == InitLoaded({PlainEdges}, {PlainNodes}) /\ InitCalculators

NextPath == FindPath \/ CalculateShortestDistance \/ ClearCache

SpecPath == InitPath /\ [][NextPath]_vars

-----------------------------------------------------------------------------
(* CommunityDetector *)

\* rounds of label propagation a caller may ask for
MaxIterations == 3

\* the orders in which an unordered_map with the keys S may be iterated
Orders(S) == {o \in [1..Cardinality(S) -> S] : Range(o) = S}

\* a graph loaded twice: initializeGraph of a graph, then initializeGraph of a
\* nodes source that lists the users W again, with no edges
ReloadedGraph(sh, W) ==
    initializeGraphOn(LoadedGraph(sh, PlainEdges, PlainNodes),
                      Source([i \in 1..Cardinality(W) |-> StoreUser(SortedSeq(W)[i])]),
                      Source(<< >>), OkMetadata, 2).store

\* members is a sequence of user ids; density in thousandths
\* (mutant) the links within a community, counted from both of their ends
InternalEdgesFromBothEnds(members) ==
    Cardinality({pr \in Range(members) \X Range(members) :
                    pr[2] \in getNeighbors(pr[1]) /\ pr[1] # pr[2]})

InternalEdges(members) ==
    Cardinality({pr \in Range(members) \X Range(members) :
                    pr[2] \in getNeighbors(pr[1]) /\ pr[1] < pr[2]})

ExternalEdges(members) ==
    Cardinality({pr \in Range(members) \X DOMAIN nodes :
                    pr[2] \in getNeighbors(pr[1]) /\ pr[2] \notin Range(members)})

calculate_internal_density(members) ==
    LET max_edges == (Len(members) * (Len(members) - 1)) \div 2
    IN IF Len(members) < 2 THEN 0
       ELSE IF max_edges = 0 THEN 0
       ELSE (1000 * InternalEdges(members)) \div max_edges

count_community_edges(members) == <<InternalEdges(members), ExternalEdges(members)>>

\* labels[neighbor] for every neighbor: operator[] inserts a missing key with 0
TouchLabels(labels, ns) ==
    [x \in (DOMAIN labels) \cup ns |-> IF x \in DOMAIN labels THEN labels[x] ELSE 0]

\* label_count of a node, and the first label of the map with the highest count
LabelCount(labels, ns, l) == Cardinality({n \in ns : labels[n] = l})

\* (mutant) the last label of the map with the highest count
MaxCountLabelLastOfTies(labels, ns) ==
    LET used == {labels[n] : n \in ns}
    IN CHOOSE l \in used :
          \A m \in used : \/ LabelCount(labels, ns, m) < LabelCount(labels, ns, l)
                          \/ (LabelCount(labels, ns, m) = LabelCount(labels, ns, l) /\ l >= m)

MaxCountLabel(labels, ns) ==
    LET used == {labels[n] : n \in ns}
    IN CHOOSE l \in used :
          \A m \in used : \/ LabelCount(labels, ns, m) < LabelCount(labels, ns, l)
                          \/ (LabelCount(labels, ns, m) = LabelCount(labels, ns, l) /\ l <= m)

\* one round over the nodes in iteration order
RECURSIVE PropagateRound(_, _, _, _)
PropagateRound(labels, order, i, changed) ==
    IF i > Len(order) THEN [labels |-> labels, changed |-> changed]
    ELSE LET id == order[i]
             ns == nodes[id].neighbors
             touched == TouchLabels(labels, ns)
         IN IF ns = {} THEN PropagateRound(touched, order, i + 1, changed)
            ELSE LET new_label == MaxCountLabel(touched, ns)
                 IN IF touched[id] # new_label
                    THEN PropagateRound([touched EXCEPT ![id] = new_label], order, i + 1, TRUE)
                    ELSE PropagateRound(touched, order, i + 1, changed)

\* the rounds of the loop: the labels at its end and, for every round that
\* was run, whether a label changed in it
RECURSIVE PropagateLabels(_, _, _, _, _)
PropagateLabels(labels, order, iteration, max_iterations, changes) ==
    IF iteration >= max_iterations THEN [labels |-> labels, changes |-> changes]
    ELSE LET r == PropagateRound(labels, order, 1, FALSE)
         IN IF ~r.changed THEN [labels |-> r.labels, changes |-> Append(changes, FALSE)]
            ELSE PropagateLabels(r.labels, order, iteration + 1, max_iterations,
                                 Append(changes, TRUE))

\* (mutant) a node is also pushed to the community keyed by its own id
MembersOfOwnLabelToo(assign, aorder, label) ==
    SelectSeq(aorder, LAMBDA id : assign[id] = label \/ id = label)

\* communities_map[label].push_back(id) over the assignment in iteration order
MembersOf(assign, aorder, label) == SelectSeq(aorder, LAMBDA id : assign[id] = label)

MakeCommunity(idx, members) ==
    [community_id |-> idx, member_ids |-> members, size |-> Len(members),
     internal_edge_density |-> calculate_internal_density(members),
     modularity_score |-> 0,
     edges_within_community |-> count_community_edges(members)[1],
     edges_to_outside |-> count_community_edges(members)[2]]

\* the result structures, one per key of communities_map in ascending order
BuildCommunities(assign, aorder) ==
    LET keys == SortedSeq({assign[id] : id \in DOMAIN assign})
    IN [k \in 1..Len(keys) |-> MakeCommunity(k - 1, MembersOf(assign, aorder, keys[k]))]

detect_label_propagation(max_iterations, order, lorder) ==
    LET initial == [id \in DOMAIN nodes |-> id]
        labels == PropagateLabels(initial, order, 0, max_iterations, << >>).labels
    IN BuildCommunities(labels, SelectSeq(lorder, LAMBDA id : id \in DOMAIN labels))

\* the nodes the BFS of one component visits from id
RECURSIVE BfsComponent(_, _)
BfsComponent(visited, frontier) ==
    LET next == UNION {getNeighbors(u) : u \in frontier} \ visited
    IN IF next = {} THEN visited ELSE BfsComponent(visited \cup next, next)

RECURSIVE AssignComponents(_, _, _, _, _)
AssignComponents(component, visited, order, i, comp_id) ==
    IF i > Len(order) THEN component
    ELSE IF order[i] \in visited THEN AssignComponents(component, visited, order, i + 1, comp_id)
    ELSE LET reached == BfsComponent(visited \cup {order[i]}, {order[i]}) \ visited
             assigned == [x \in (DOMAIN component) \cup reached |->
                             IF x \in reached THEN comp_id ELSE component[x]]
         IN AssignComponents(assigned, visited \cup reached, order, i + 1, comp_id + 1)

detect_greedy_modularity(max_iterations, order, corder) ==
    LET component == AssignComponents(<< >>, {}, order, 1, 0)
    IN BuildCommunities(component, SelectSeq(corder, LAMBDA id : id \in DOMAIN component))

DetectLabelPropagation ==
    /\ \E max_iterations \in 0..MaxIterations, order \in Orders(DOMAIN nodes),
          lorder \in Orders(DOMAIN nodes) :
          communities' = [called |-> TRUE, op |-> "detect_label_propagation",
                          max_iterations |-> max_iterations,
                          loop |-> PropagateLabels([id \in DOMAIN nodes |-> id], order, 0,
                                                   max_iterations, << >>),
                          result |-> detect_label_propagation(max_iterations, order, lorder)]
    /\ UNCHANGED <<analysisVars, graphVars, mutualVars, scoreVars, pathVars, calls, rankVars, threadVars>>

DetectGreedyModularity ==
    /\ \E max_iterations \in 0..MaxIterations, order \in Orders(DOMAIN nodes),
          corder \in Orders(DOMAIN nodes) :
          communities' = [called |-> TRUE, op |-> "detect_greedy_modularity",
                          result |-> detect_greedy_modularity(max_iterations, order, corder)]
    /\ UNCHANGED <<analysisVars, graphVars, mutualVars, scoreVars, pathVars, calls, rankVars, threadVars>>

InitCommunity ==
    /\ \E sh \in [1..3 -> PairShapes], W \in SUBSET Users :
          LET st == ReloadedGraph(sh, W)
          IN /\ nodes = st.nodes
             /\ edges = st.edges
             /\ metadata = st.metadata
             /\ last_update = st.last_update
    /\ loads = 2
    /\ lastOp = [op |-> "initializeGraph", ret |-> TRUE, failed |-> "none"]
    /\ InitCalculators

NextCommunity == DetectLabelPropagation \/ DetectGreedyModularity

SpecCommunity == InitCommunity /\ [][NextCommunity]_vars

-----------------------------------------------------------------------------
(* PageRankCalculator: ranks in millionths *)

\* iteration_count values a caller may pass
MaxPagerankIterations == 1

RankUnit == 1000000
\* damping_factor 0.85, in hundredths
DampingPercent == 85

\* what one node adds to new_rank[target] in one iteration, without the
\* redistribution of lines 73-79
ContributionDroppingDangling(rank, id, target, node_count, damping_factor) ==
    LET out == getFollowing(id)
    IN IF out # {} THEN
           IF target \in out
           THEN (damping_factor * (rank[id] \div Cardinality(out))) \div 100
           ELSE 0
       ELSE 0

\* what one node adds to new_rank[target] in one iteration
Contribution(rank, id, target, node_count, damping_factor) ==
    LET out == getFollowing(id)
    IN IF out # {} THEN
           IF target \in out
           THEN (damping_factor * (rank[id] \div Cardinality(out))) \div 100
           ELSE 0
       ELSE (damping_factor * rank[id]) \div (100 * node_count)

RECURSIVE SumOver(_, _)
SumOver(f, S) ==
    IF S = {} THEN 0
    ELSE LET x == CHOOSE y \in S : TRUE IN f[x] + SumOver(f, S \ {x})

PagerankIteration(rank, damping_factor) ==
    LET node_count == Cardinality(DOMAIN nodes)
        base == ((100 - damping_factor) * RankUnit) \div (100 * node_count)
    IN [target \in DOMAIN nodes |->
           base + SumOver([id \in DOMAIN nodes |->
                              Contribution(rank, id, target, node_count, damping_factor)],
                          DOMAIN nodes)]

RECURSIVE PagerankLoop(_, _, _, _)
PagerankLoop(rank, iteration, iteration_count, damping_factor) ==
    IF iteration >= iteration_count THEN rank
    ELSE PagerankLoop(PagerankIteration(rank, damping_factor), iteration + 1,
                      iteration_count, damping_factor)

\* PageRankCalculator::calculate(damping_factor, iteration_count), the damping
\* factor in hundredths
calculate(damping_factor, iteration_count) ==
    IF DOMAIN nodes = {} THEN << >>
    ELSE PagerankLoop([id \in DOMAIN nodes |-> RankUnit \div Cardinality(DOMAIN nodes)],
                      0, iteration_count, damping_factor)

\* iteration_count and damping_factor values a caller of calculate may pass
MaxIterationCount == 3
DampingFactors == {0, 50, DampingPercent, 100}

Calculate ==
    /\ \E damping_factor \in DampingFactors, iteration_count \in 0..MaxIterationCount :
          ranks' = [called |-> TRUE, damping_factor |-> damping_factor,
                    iteration_count |-> iteration_count,
                    result |-> calculate(damping_factor, iteration_count)]
    /\ UNCHANGED <<graphVars, mutualVars, scoreVars, pathVars, calls, communityVars, rankVars,
                   threadVars, recommenderVars, searchVars, serverVars, centralityVars>>

\* the store after initializeGraph of the users W and the edges of the shapes sh
LoadedSubgraph(sh, W) ==
    initializeGraphOn(Store(<< >>, << >>, EmptyMetadata, 0),
                      Source([i \in 1..Cardinality(W) |-> StoreUser(SortedSeq(W)[i])]),
                      EdgesSource(sh, PlainEdges), OkMetadata, 1).store

InitPagerank ==
    /\ \E sh \in [1..3 -> PairShapes], W \in SUBSET Users :
          LET st == LoadedSubgraph(sh, W)
          IN /\ nodes = st.nodes
             /\ edges = st.edges
             /\ metadata = st.metadata
             /\ last_update = st.last_update
    /\ loads = 1
    /\ lastOp = [op |-> "initializeGraph", ret |-> TRUE, failed |-> "none"]
    /\ InitCalculators

NextPagerank == Calculate

SpecPagerank == InitPagerank /\ [][NextPagerank]_vars

-----------------------------------------------------------------------------
(* InfluencerRanker: influence scores in thousandths *)

\* top_k values a caller may pass
MaxTopK == 4

\* clamp_score(value, max_value) * weight, for a count and whole numbers
ClampedComponent(value, max_value, weight) ==
    IF max_value <= 0 THEN 0 ELSE Min(1000 * weight, (1000 * weight * value) \div max_value)

Fans(user_id) == getFollowers(user_id) \ getFriends(user_id)

\* the entry built for a user in the loop of get_leaderboard
RankEntry(user_id, pagerank_scores) ==
    LET total_followers == Cardinality(getFollowers(user_id))
        friend_count == Cardinality(getFriends(user_id))
        fan_count == Cardinality(Fans(user_id))
        pagerank_score == IF user_id \in DOMAIN pagerank_scores
                          THEN pagerank_scores[user_id] ELSE 0
    IN [rank |-> 0, user_id |-> user_id,
        fan_count |-> fan_count, friend_count |-> friend_count,
        total_followers |-> total_followers, pagerank_score |-> pagerank_score,
        influence_score |-> ClampedComponent(total_followers, 1000, 30)
                            + ClampedComponent(fan_count, 500, 35)
                            + ClampedComponent(friend_count, 500, 15)
                            + Min(25000, (pagerank_score * 25) \div 1000)]

\* the entries a min-heap may have on top: those of the lowest score
HeapTops(heap) == {m \in heap : \A e \in heap : m.influence_score <= e.influence_score}

\* the heaps the loop may end with, after pushing the entries in iteration
\* order; which of several lowest entries pop() removes is up to the library
RECURSIVE HeapsAfter(_, _, _, _)
HeapsAfter(entries, i, heap, top_k) ==
    IF i > Len(entries) THEN {heap}
    ELSE IF Cardinality(heap) < top_k
         THEN HeapsAfter(entries, i + 1, heap \cup {entries[i]}, top_k)
    ELSE IF \E m \in HeapTops(heap) : entries[i].influence_score > m.influence_score
         THEN UNION {HeapsAfter(entries, i + 1, (heap \ {m}) \cup {entries[i]}, top_k)
                        : m \in HeapTops(heap)}
    ELSE HeapsAfter(entries, i + 1, heap, top_k)

\* the comparator of the final sort: score descending, then user ID ascending
RanksBefore(a, b) ==
    IF a.influence_score # b.influence_score
    THEN a.influence_score > b.influence_score
    ELSE a.user_id < b.user_id

RECURSIVE SortByRank(_)
SortByRank(S) ==
    IF S = {} THEN << >>
    ELSE LET first == CHOOSE a \in S : \A b \in S \ {a} : RanksBefore(a, b)
         IN <<first>> \o SortByRank(S \ {first})

AssignRanks(sorted) == [i \in 1..Len(sorted) |-> [sorted[i] EXCEPT !.rank = i]]

\* the leaderboards get_leaderboard(top_k, pagerank_iterations) may return
get_leaderboard(top_k, pagerank_iterations, order) ==
    IF Cardinality(DOMAIN nodes) = 0 \/ top_k <= 0 THEN {<< >>}
    ELSE LET pagerank_scores == calculate(DampingPercent, pagerank_iterations)
             entries == [i \in 1..Len(order) |-> RankEntry(order[i], pagerank_scores)]
         IN {AssignRanks(SortByRank(heap)) : heap \in HeapsAfter(entries, 1, {}, top_k)}

GetLeaderboard ==
    /\ \E top_k \in 0..MaxTopK, pagerank_iterations \in 0..MaxPagerankIterations,
          order \in Orders(DOMAIN nodes) :
          \E board \in get_leaderboard(top_k, pagerank_iterations, order) :
             leaderboard' = [called |-> TRUE, top_k |-> top_k,
                             pagerank_iterations |-> pagerank_iterations, result |-> board]
    /\ UNCHANGED <<analysisVars, graphVars, mutualVars, scoreVars, pathVars, calls, communityVars, threadVars>>

InitRank == InitLoaded({PlainEdges}, {PlainNodes}) /\ InitCalculators

NextRank == GetLeaderboard

SpecRank == InitRank /\ [][NextRank]_vars

-----------------------------------------------------------------------------
(* Request threads sharing one OptimizedDistanceCalculator and one           *)
(* FriendshipScoreCalculator. A thread's position names the statement it     *)
(* executes next; the calculators take no lock, so every statement of every  *)
(* thread is a step of its own.                                              *)

Crashed == [at |-> "crashed"]

\* the caches the next statement of a thread reads / writes
CacheReads(p) ==
    CASE p.at = "find_path_lookup" -> {"result_cache"}
      [] p.at = "distance_lookup" -> {"cache"}
      [] p.at = "score_lookup" -> {"score_cache"}
      [] p.at = "score_internal" ->
            IF p.stk[Len(p.stk)].fn = "calculateMutualFriendsScore"
               /\ p.stk[Len(p.stk)].mutual # << >>
            THEN {"score_cache"} ELSE {}
      [] OTHER -> {}

CacheWrites(p) ==
    CASE p.at = "store_result" -> {"result_cache"}
      [] p.at = "store_distance" -> {"cache"}
      [] p.at = "score_store" -> {"score_cache"}
      [] OTHER -> {}

\* thread t is about to write a cache that another thread is about to access
RacesOnWrite(t) ==
    \E u \in Threads \ {t} :
        CacheWrites(pc[t]) \cap (CacheReads(pc[u]) \cup CacheWrites(pc[u])) # {}

\* a request thread calls find_path, calculate_shortest_distance or calculateScore
ThreadCall(t) ==
    /\ pc[t] = Idle
    /\ calls < MaxCalls
    /\ \E a \in QueryIds, b \in QueryIds :
          \/ /\ pc' = [pc EXCEPT ![t] = [at |-> "find_path_lookup", op |-> "find_path",
                                         source |-> a, target |-> b]]
             /\ UNCHANGED path_result
          \/ /\ a # b
             /\ pc' = [pc EXCEPT ![t] = [at |-> "distance_lookup",
                                         op |-> "calculate_shortest_distance",
                                         source |-> a, target |-> b]]
             /\ UNCHANGED path_result
          \/ /\ a = b
             /\ pc' = pc
             /\ path_result' = [called |-> TRUE, op |-> "calculate_shortest_distance",
                                source |-> a, target |-> b, result |-> 0]
          \/ /\ pc' = [pc EXCEPT ![t] = [at |-> "score_lookup", node1 |-> a, node2 |-> b]]
             /\ UNCHANGED path_result
    /\ calls' = calls + 1
    /\ UNCHANGED <<analysisVars, graphVars, mutualVars, scoreVars, cache, result_cache,
                   communityVars, rankVars>>

\* if (result_cache.count(key)) return result_cache[key];  resp.
\* if (cache.count(key)) return cache[key];  otherwise compute_path_internal
ThreadPathLookup(t) ==
    /\ pc[t].at \in {"find_path_lookup", "distance_lookup"}
    /\ LET p == pc[t]
           key == encode_pair(p.source, p.target)
           returned(r) == [called |-> TRUE, op |-> p.op, source |-> p.source,
                           target |-> p.target, result |-> r]
       IN IF p.at = "find_path_lookup" /\ key \in DOMAIN result_cache THEN
              /\ path_result' = returned(result_cache[key])
              /\ pc' = [pc EXCEPT ![t] = Idle]
          ELSE IF p.at = "distance_lookup" /\ key \in DOMAIN cache THEN
              /\ path_result' = returned(cache[key])
              /\ pc' = [pc EXCEPT ![t] = Idle]
          ELSE
              /\ pc' = [pc EXCEPT ![t] =
                           [at |-> "store_result", op |-> p.op, source |-> p.source,
                            target |-> p.target,
                            result |-> compute_path_internal(p.source, p.target)]]
              /\ UNCHANGED path_result
    /\ UNCHANGED <<analysisVars, graphVars, mutualVars, scoreVars, calls, cache, result_cache,
                   communityVars, rankVars>>

\* result_cache[key] = result;  racing with another access, the insertion has
\* no defined outcome: it may take effect or bring the process down
ThreadStoreResult(t) ==
    /\ pc[t].at = "store_result"
    /\ LET p == pc[t]
           key == encode_pair(p.source, p.target)
       IN \/ /\ result_cache' = Put(result_cache, key, p.result)
             /\ IF p.op = "find_path" /\ ~p.result.path_exists THEN
                    /\ pc' = [pc EXCEPT ![t] = Idle]
                    /\ path_result' = [called |-> TRUE, op |-> p.op, source |-> p.source,
                                       target |-> p.target, result |-> p.result]
                ELSE
                    /\ pc' = [pc EXCEPT ![t] = [p EXCEPT !.at = "store_distance"]]
                    /\ UNCHANGED path_result
          \/ /\ RacesOnWrite(t)
             /\ pc' = [u \in Threads |-> Crashed]
             /\ UNCHANGED <<result_cache, path_result>>
    /\ UNCHANGED <<analysisVars, graphVars, mutualVars, scoreVars, calls, cache, communityVars, rankVars>>

\* cache[key] = result.path_length (-1 for a missing path), then return
ThreadStoreDistance(t) ==
    /\ pc[t].at = "store_distance"
    /\ LET p == pc[t]
           key == encode_pair(p.source, p.target)
       IN \/ /\ cache' = Put(cache, key,
                             IF p.result.path_exists THEN p.result.path_length ELSE -1)
             /\ pc' = [pc EXCEPT ![t] = Idle]
             /\ path_result' = [called |-> TRUE, op |-> p.op, source |-> p.source,
                                target |-> p.target,
                                result |-> IF p.op = "find_path" THEN p.result
                                           ELSE p.result.path_length]
          \/ /\ RacesOnWrite(t)
             /\ pc' = [u \in Threads |-> Crashed]
             /\ UNCHANGED <<cache, path_result>>
    /\ UNCHANGED <<analysisVars, graphVars, mutualVars, scoreVars, calls, result_cache,
                   communityVars, rankVars>>

\* if (score_cache.find(key) != score_cache.end()) { }  then calculateScoreInternal
ThreadScoreLookup(t) ==
    /\ pc[t].at = "score_lookup"
    /\ pc' = [pc EXCEPT ![t] = [at |-> "score_internal", node1 |-> pc[t].node1,
                                node2 |-> pc[t].node2,
                                stk |-> <<InternalFrame(pc[t].node1, pc[t].node2, 0)>>]]
    /\ UNCHANGED <<analysisVars, graphVars, mutualVars, scoreVars, pathVars, calls, communityVars, rankVars>>

\* the frames left when result is returned to the caller of the frame above
\* below; with nothing below, calculateScoreInternal returns to calculateScore
ReturnTo(below, result) ==
    IF below = << >> THEN [done |-> TRUE, stk |-> << >>, result |-> result]
    ELSE [done |-> FALSE,
          stk |-> [below EXCEPT ![Len(below)] = TakeScore(@, result.friendship_score)],
          result |-> result]

\* one step of calculateScoreInternal / calculateMutualFriendsScore on a
\* thread's own stack, reading the shared score cache
InternalStep(stk, junk) ==
    LET f == stk[Len(stk)]
    IN IF f.fn = "calculateScoreInternal" THEN
           IF f.depth > DepthCap THEN ReturnTo(Pop(stk), BareResult(1500, junk))
           ELSE IF ~getNode(f.node1) \/ ~getNode(f.node2)
           THEN ReturnTo(Pop(stk), BareResult(3000, junk))
           ELSE [done |-> FALSE, stk |-> Append(stk, MutualFrame(f.node1, f.node2)),
                 result |-> BareResult(0, junk)]
       ELSE IF f.mutual # << >> THEN
           LET node == IF f.second THEN f.node2 ELSE f.node1
               key == ScoreKey(node, Head(f.mutual))
           IN IF key \in DOMAIN score_cache
              THEN [done |-> FALSE,
                    stk |-> [stk EXCEPT ![Len(stk)] = TakeScore(f, score_cache[key])],
                    result |-> BareResult(0, junk)]
              ELSE [done |-> FALSE,
                    stk |-> Append(stk, InternalFrame(node, Head(f.mutual), 1)),
                    result |-> BareResult(0, junk)]
       ELSE ReturnTo(Pop(Pop(stk)),
                     ScoreOf(f.node1, f.node2,
                             IF f.count > 0 THEN f.total_score \div f.count ELSE 1500))

ThreadScoreStep(t) ==
    /\ pc[t].at = "score_internal"
    /\ \E junk \in Indeterminate :
          LET r == InternalStep(pc[t].stk, junk)
          IN /\ Len(r.stk) <= MaxStack
             /\ pc' = [pc EXCEPT ![t] =
                          IF r.done
                          THEN [at |-> "score_store", node1 |-> pc[t].node1,
                                node2 |-> pc[t].node2, result |-> r.result]
                          ELSE [pc[t] EXCEPT !.stk = r.stk]]
    /\ UNCHANGED <<analysisVars, graphVars, mutualVars, scoreVars, pathVars, calls, communityVars, rankVars>>

\* score_cache[key] = result.friendship_score; return result;
ThreadScoreStore(t) ==
    /\ pc[t].at = "score_store"
    /\ \/ /\ score_cache' = Put(score_cache, ScoreKey(pc[t].node1, pc[t].node2),
                                pc[t].result.friendship_score)
          /\ score_result' = [called |-> TRUE, node1 |-> pc[t].node1, node2 |-> pc[t].node2,
                              result |-> pc[t].result]
          /\ pc' = [pc EXCEPT ![t] = Idle]
       \/ /\ RacesOnWrite(t)
          /\ pc' = [u \in Threads |-> Crashed]
          /\ UNCHANGED <<score_cache, score_result>>
    /\ UNCHANGED <<analysisVars, graphVars, mutualVars, pathVars, calls, stack, communityVars, rankVars>>

\* the graphs the server threads run on: every pair of users related alike
InitThreads ==
    /\ \E shape \in PairShapes :
          LET st == LoadedGraph([i \in 1..3 |-> shape], PlainEdges, PlainNodes)
          IN /\ nodes = st.nodes
             /\ edges = st.edges
             /\ metadata = st.metadata
             /\ last_update = st.last_update
    /\ loads = 1
    /\ lastOp = [op |-> "initializeGraph", ret |-> TRUE, failed |-> "none"]
    /\ InitCalculators

NextThreads ==
    \E t \in Threads :
        \/ ThreadCall(t)
        \/ ThreadPathLookup(t)
        \/ ThreadStoreResult(t)
        \/ ThreadStoreDistance(t)
        \/ ThreadScoreLookup(t)
        \/ ThreadScoreStep(t)
        \/ ThreadScoreStore(t)

SpecThreads == InitThreads /\ [][NextThreads]_vars

-----------------------------------------------------------------------------
(* The graphs the recommender and the centrality analyzer are run on: users *)
(* 1..4 loaded by a successful initializeGraph; 5 is absent from the graph. *)

Members == 1..4
MemberIds == Members \cup {5}

\* the unordered pairs of members, in the order their edges are listed
MemberPairs == << <<1, 2>>, <<1, 3>>, <<1, 4>>, <<2, 3>>, <<2, 4>>, <<3, 4>> >>

\* how a pair is related: no edge, one edge, or one edge each way (friends)
Ties == {"none", "forward", "both"}

\* the node attributes: users on the equator (longitude in degrees), interests
MemberProfiles ==
    { [longitude |-> [u \in Members |-> 0], interests |-> [u \in Members |-> << >>]],
      [longitude |-> [u \in Members |-> u],
       interests |-> [u \in Members |-> IF u % 2 = 0 THEN <<"a", "b">> ELSE <<"b">>]] }

RECURSIVE MemberEdges(_, _)
MemberEdges(tie, i) ==
    IF i > Len(MemberPairs) THEN << >>
    ELSE PairEdges(MemberPairs[i], tie[i], PlainEdges) \o MemberEdges(tie, i + 1)

\* the store after a successful initializeGraph of such a graph
MemberGraph(tie, mp) ==
    initializeGraphOn(Store(<< >>, << >>, EmptyMetadata, 0),
                      Source([i \in 1..4 |-> NodeEntry(i, "user",
                                                 [latitude |-> 0, longitude |-> mp.longitude[i]],
                                                 mp.interests[i])]),
                      Source(MemberEdges(tie, 1)), OkMetadata, 1).store

InitMembers(ties, mps) ==
    /\ \E tie \in [1..Len(MemberPairs) -> ties], mp \in mps :
          LET st == MemberGraph(tie, mp)
          IN /\ nodes = st.nodes
             /\ edges = st.edges
             /\ metadata = st.metadata
             /\ last_update = st.last_update
    /\ loads = 1
    /\ lastOp = [op |-> "initializeGraph", ret |-> TRUE, failed |-> "none"]
    /\ InitCalculators

-----------------------------------------------------------------------------
(* FriendRecommender: scores in thousandths of a point *)

\* recommendation_count values a caller may pass besides a negative one
MaxRecommendationCount == 2

score_mutual_friends(mutual_count) == normalize_to_01(mutual_count, 100) * 40
score_common_interests(interests_count) == normalize_to_01(interests_count, 10) * 25
score_geographic_proximity(distance_km) == Max(0, 1000 - (1000 * distance_km) \div 500) * 20
score_community_similarity(similarity) == (similarity * 15) \div 1000

\* (mutant) step 1 without the test for users who are friends already
CandidatesKeepingFriends(target_user_id) ==
    UNION {getFriends(friend_id) : friend_id \in getFriends(target_user_id)}
        \ {target_user_id}

\* step 1: the keys of candidate_map
Candidates(target_user_id) ==
    UNION {getFriends(friend_id) : friend_id \in getFriends(target_user_id)}
        \ ({target_user_id} \cup getFriends(target_user_id))

\* step 2: the scored recommendation of a candidate
Recommendation(target_user_id, candidate_id) ==
    IF ~getNode(candidate_id)
    THEN [recommended_user_id |-> candidate_id, total_score |-> 0,
          mutual_friends_count |-> 0, common_interests_count |-> 0]
    ELSE LET mutual == set_intersection_of_two(getFriends(target_user_id),
                                               getFriends(candidate_id))
             common_interests == find_common_items(nodes[target_user_id].interests,
                                                   nodes[candidate_id].interests)
             distance_km == calculate_haversine_distance(
                                nodes[target_user_id].location.latitude,
                                nodes[target_user_id].location.longitude,
                                nodes[candidate_id].location.latitude,
                                nodes[candidate_id].location.longitude)
         IN [recommended_user_id |-> candidate_id,
             total_score |-> score_mutual_friends(Cardinality(mutual))
                             + score_common_interests(Len(common_interests))
                             + score_geographic_proximity(distance_km)
                             + score_community_similarity(500),
             mutual_friends_count |-> Cardinality(mutual),
             common_interests_count |-> Len(common_interests)]

\* step 3: the vectors sort may leave (the order of equal scores is up to the
\* library), cut to recommendation_count; the comparison with size() reads a
\* negative count as a huge unsigned number
get_recommendations(target_user_id, recommendation_count) ==
    IF ~getNode(target_user_id) THEN {<< >>}
    ELSE LET cands == Candidates(target_user_id)
             sorted == {[i \in 1..Len(o) |-> Recommendation(target_user_id, o[i])] :
                           o \in {p \in Orders(cands) :
                                     \A i, j \in 1..Len(p) : i < j =>
                                         Recommendation(target_user_id, p[i]).total_score
                                         >= Recommendation(target_user_id, p[j]).total_score}}
         IN {IF recommendation_count >= 0 /\ Len(r) > recommendation_count
             THEN SubSeq(r, 1, recommendation_count) ELSE r : r \in sorted}

GetRecommendations ==
    /\ \E target_user_id \in MemberIds, recommendation_count \in -1..MaxRecommendationCount :
          \E r \in get_recommendations(target_user_id, recommendation_count) :
             recommendations' = [called |-> TRUE, target_user_id |-> target_user_id,
                                 recommendation_count |-> recommendation_count, result |-> r]
    /\ UNCHANGED <<graphVars, mutualVars, scoreVars, pathVars, calls, communityVars, rankVars,
                   threadVars, pagerankVars, searchVars, serverVars, centralityVars>>

InitRecommender == InitMembers(Ties, MemberProfiles)

NextRecommender == GetRecommendations

SpecRecommender == InitRecommender /\ [][NextRecommender]_vars

-----------------------------------------------------------------------------
(* UserSearchIndex: a name is the sequence of its character codes; a trie   *)
(* node is named by the lower-cased prefix that leads to it, root by << >>. *)
(* The loops over users and over stored IDs are written in closed form.     *)

\* the number of user IDs a trie node stores at most
IdCap == 100
\* limit values a caller of search may pass, besides one above IdCap
MaxLimit == 2

\* 'A', 'a', 'b'
NameChars == {65, 97, 98}
LowerChars == {97, 98}

tolower(c) == IF c >= 65 /\ c <= 90 THEN c + 32 ELSE c
toLower(str) == [i \in 1..Len(str) |-> tolower(str[i])]

LowerNameOf(id) == toLower(nodes[id].name)

StartsWith(str, prefix) ==
    Len(prefix) <= Len(str) /\ SubSeq(str, 1, Len(prefix)) = prefix

Take(s, n) == SubSeq(s, 1, Min(Len(s), n))

\* the user_ids of the node current after insert has run for the users of
\* order, one after the other: every user whose lower-cased name passes
\* through the node is pushed, as long as the node holds fewer than IdCap IDs
inserted(order, current) ==
    Take(SelectSeq(order, LAMBDA id : StartsWith(LowerNameOf(id), current)), IdCap)

\* buildIndex: a fresh root, then insert for every node in iteration order;
\* insert creates the nodes of all non-empty prefixes of the lower-cased name
buildIndex(order) ==
    LET created == UNION {{SubSeq(LowerNameOf(id), 1, k) : k \in 1..Len(LowerNameOf(id))} :
                             id \in DOMAIN nodes}
    IN [isBuilt |-> TRUE, root |-> [current \in created |-> inserted(order, current)]]

\* result.size() >= limit, the int limit converted to an unsigned number
AtLimit(result, limit) == limit >= 0 /\ Len(result) >= limit

\* (mutant) the loop over node->user_ids without the test for duplicates
AddIdsKeepingDuplicates(ids, result, limit) ==
    IF limit < 0 THEN result \o ids
    ELSE result \o Take(ids, Max(0, limit - Len(result)))

\* the loop over node->user_ids (the IDs of one node are distinct): the IDs
\* not in result yet are pushed until result has limit elements
AddIds(ids, result, limit) ==
    LET fresh == SelectSeq(ids, LAMBDA user_id : user_id \notin Range(result))
    IN IF limit < 0 THEN result \o fresh
       ELSE result \o Take(fresh, Max(0, limit - Len(result)))

\* getAllUserIds on the node named node; corder is the iteration order of
\* the children maps
RECURSIVE getAllUserIds(_, _, _, _, _)
RECURSIVE VisitChildren(_, _, _, _, _, _)
getAllUserIds(trie, node, result, limit, corder) ==
    IF AtLimit(result, limit) THEN result
    ELSE VisitChildren(trie, node, AddIds(trie[node], result, limit), limit, corder, 1)

VisitChildren(trie, node, result, limit, corder, i) ==
    IF i > Len(corder) \/ AtLimit(result, limit) THEN result
    ELSE LET child == Append(node, corder[i])
         IN IF child \in DOMAIN trie
            THEN VisitChildren(trie, node, getAllUserIds(trie, child, result, limit, corder),
                               limit, corder, i + 1)
            ELSE VisitChildren(trie, node, result, limit, corder, i + 1)

\* operator< of two strings
RECURSIVE LexLess(_, _)
LexLess(x, y) ==
    IF y = << >> THEN FALSE
    ELSE IF x = << >> THEN TRUE
    ELSE IF Head(x) # Head(y) THEN Head(x) < Head(y)
    ELSE LexLess(Tail(x), Tail(y))

\* the sort of search: by lower-cased name; the IDs of one name stay in
\* their order (every ID of results names a node of the graph)
RECURSIVE SortNames(_, _)
SortNames(results, names) ==
    IF names = {} THEN << >>
    ELSE LET first == CHOOSE n \in names : \A m \in names : ~LexLess(m, n)
         IN SelectSeq(results, LAMBDA id : LowerNameOf(id) = first)
            \o SortNames(results, names \ {first})

SortByName(results) == SortNames(results, {LowerNameOf(results[i]) : i \in DOMAIN results})

\* search(prefix, limit); sort may leave the IDs of equal names in either order
search(prefix, limit, corder, tie) ==
    IF ~index.isBuilt \/ prefix = << >> THEN << >>
    ELSE LET lowerPrefix == toLower(prefix)
         IN IF lowerPrefix \notin DOMAIN index.root THEN << >>
            ELSE LET results == getAllUserIds(index.root, lowerPrefix, << >>, limit, corder)
                 IN SortByName(IF tie = "kept" THEN results ELSE Reverse(results))

\* the iteration orders of the nodes map tried (its keys are 1..n): all of a
\* small map, the ascending and the descending one of a large map
IterationOrders ==
    LET n == Cardinality(DOMAIN nodes)
    IN IF n <= 3 THEN Orders(DOMAIN nodes)
       ELSE {[i \in 1..n |-> i], [i \in 1..n |-> n + 1 - i]}

BuildIndex ==
    /\ \E order \in IterationOrders : index' = buildIndex(order)
    /\ UNCHANGED <<graphVars, mutualVars, scoreVars, pathVars, calls, communityVars, rankVars,
                   threadVars, pagerankVars, recommenderVars, serverVars, centralityVars,
                   search_result>>

Search ==
    /\ \E prefix \in SeqsUpTo(NameChars, 2), limit \in (0..MaxLimit) \cup {IdCap + 2},
          corder \in Orders(LowerChars), tie \in {"kept", "reversed"} :
          search_result' = [called |-> TRUE, prefix |-> prefix, limit |-> limit,
                            isBuilt |-> index.isBuilt,
                            result |-> search(prefix, limit, corder, tie)]
    /\ UNCHANGED <<graphVars, mutualVars, scoreVars, pathVars, calls, communityVars, rankVars,
                   threadVars, pagerankVars, recommenderVars, serverVars, centralityVars,
                   index>>

\* the names of a small graph, and a crowd: IdCap + 1 users of one name,
\* or IdCap of one name and one whose name continues it
UserNames == {<<65>>, <<97, 98>>, <<98>>}
Crowds ==
    {[i \in 1..(IdCap + 1) |-> IF i <= IdCap THEN <<97>> ELSE last] : last \in {<<97>>, <<97, 98>>}}

\* the nodes map after loadNodesFromJSON of users 1..n with these names
NamedUsers(names) ==
    [i \in DOMAIN names |-> MakeNode(NodeEntry(i, names[i], NoLocation, << >>))]

InitSearch ==
    /\ \E names \in [1..3 -> UserNames] \cup Crowds : nodes = NamedUsers(names)
    /\ edges = << >>
    /\ metadata = OkMetadata
    /\ last_update = 1
    /\ loads = 1
    /\ lastOp = [op |-> "initializeGraph", ret |-> TRUE, failed |-> "none"]
    /\ InitCalculators

NextSearch == BuildIndex \/ Search

SpecSearch == InitSearch /\ [][NextSearch]_vars

-----------------------------------------------------------------------------
(* SimpleHTTPServer: the graph contexts of the request threads *)

\* requests accepted in one behaviour
MaxRequests == 3

\* the snapshots of the dataset root, and a date that has no dataset
Datasets == {"d1", "d2"}
RequestDates == Datasets \cup {"d0"}

Finished(t) == request[t].at \in {"idle", "served", "failed"}

\* what the server threads leave alone
engineVars == <<graphVars, mutualVars, scoreVars, pathVars, communityVars, rankVars,
                threadVars, pagerankVars, recommenderVars, searchVars, centralityVars>>

\* start: accept hands the request to a detached thread; processRequest
\* reads the date parameter and calls getGraphContext
ProcessRequest(t) ==
    /\ Finished(t)
    /\ calls < MaxRequests
    /\ \E date \in RequestDates : request' = [request EXCEPT ![t] = [at |-> "find", date |-> date]]
    /\ calls' = calls + 1
    /\ UNCHANGED <<graphCache, contexts, engineVars>>

\* getGraphContext, first block: graphCache.find(date) under cacheMutex
FindContext(t) ==
    /\ request[t].at = "find"
    /\ request' = [request EXCEPT ![t] =
                      IF request[t].date \in DOMAIN graphCache
                      THEN [at |-> "served", date |-> request[t].date,
                            context |-> graphCache[request[t].date]]
                      ELSE [at |-> "load", date |-> request[t].date]]
    /\ UNCHANGED <<graphCache, contexts, calls, engineVars>>

\* datasetExists and loadGraphContext, outside the mutex: a new GraphContext
\* (a graph and its algorithms), or an exception for a date without dataset
LoadContext(t) ==
    /\ request[t].at = "load"
    /\ IF request[t].date \in Datasets
       THEN /\ contexts' = Append(contexts, request[t].date)
            /\ request' = [request EXCEPT ![t] = [at |-> "store", date |-> request[t].date,
                                                  context |-> Len(contexts) + 1]]
       ELSE /\ request' = [request EXCEPT ![t] = [at |-> "failed", date |-> request[t].date]]
            /\ UNCHANGED contexts
    /\ UNCHANGED <<graphCache, calls, engineVars>>

\* getGraphContext, last block: graphCache[date] = context under cacheMutex
StoreContext(t) ==
    /\ request[t].at = "store"
    /\ graphCache' = Put(graphCache, request[t].date, request[t].context)
    /\ request' = [request EXCEPT ![t] = [at |-> "served", date |-> request[t].date,
                                          context |-> request[t].context]]
    /\ UNCHANGED <<contexts, calls, engineVars>>

InitServer == InitGraphEmpty /\ InitCalculators

NextServer ==
    \E t \in Threads :
        ProcessRequest(t) \/ FindContext(t) \/ LoadContext(t) \/ StoreContext(t)

SpecServer == InitServer /\ [][NextServer]_vars

-----------------------------------------------------------------------------
(* CentralityAnalyzer: metrics in thousandths; cache and result_cache are   *)
(* those of its path_calculator                                             *)

\* calls of calculate_metrics in one behaviour
MaxMetricsCalls == 1

\* getFriendCount: the number of friends of the user
getFriendCount(id) == Cardinality(getFriends(id))

\* the caches and the value returned after the computation of result
ComputedDistance(c, key, result) ==
    [dist |-> result.path_length,
     caches |-> [cache |-> Put(c.cache, key, IF result.path_exists
                                             THEN result.path_length ELSE -1),
                 result_cache |-> Put(c.result_cache, key, result)]]

\* path_calculator.calculate_shortest_distance on the caches c
shortest_distance(c, source_id, target_id) ==
    IF source_id = target_id THEN [dist |-> 0, caches |-> c]
    ELSE IF encode_pair(source_id, target_id) \in DOMAIN c.cache
         THEN [dist |-> c.cache[encode_pair(source_id, target_id)], caches |-> c]
    ELSE ComputedDistance(c, encode_pair(source_id, target_id),
                          compute_path_internal(source_id, target_id))

\* the closeness loop over the nodes in iteration order, and the rest of
\* the loop after the distance d to the i-th node is known
RECURSIVE ClosenessLoop(_, _, _, _, _, _)
RECURSIVE ClosenessRest(_, _, _, _, _, _)
ClosenessLoop(user_id, order, i, c, total_distance, reachable_count) ==
    IF i > Len(order)
    THEN [caches |-> c, total_distance |-> total_distance, reachable_count |-> reachable_count]
    ELSE IF order[i] = user_id
         THEN ClosenessLoop(user_id, order, i + 1, c, total_distance, reachable_count)
    ELSE ClosenessRest(user_id, order, i, shortest_distance(c, user_id, order[i]),
                       total_distance, reachable_count)

ClosenessRest(user_id, order, i, d, total_distance, reachable_count) ==
    IF d.dist >= 0
    THEN ClosenessLoop(user_id, order, i + 1, d.caches, total_distance + d.dist,
                       reachable_count + 1)
    ELSE ClosenessLoop(user_id, order, i + 1, d.caches, total_distance, reachable_count)

\* the orders sort may give friends_list: degree ascending, equal degrees in
\* any order
DegreeSorted(friend_ids) ==
    {o \in Orders(friend_ids) :
        \A i, j \in 1..Len(o) : i < j => getFriendCount(o[i]) <= getFriendCount(o[j])}

\* (mutant) the pair is also skipped when the two degrees are equal
PairCountedUnlessEqualDegree(friends_list, i, j) ==
    /\ ~(getFriendCount(friends_list[j]) <= getFriendCount(friends_list[i]))
    /\ friends_list[j] \in getFriends(friends_list[i])

\* the inner loop body: the pair is skipped if degree[j] < degree[i], and
\* counted if friends_list[j] is a friend of friends_list[i]
PairCounted(friends_list, i, j) ==
    /\ ~(getFriendCount(friends_list[j]) < getFriendCount(friends_list[i]))
    /\ friends_list[j] \in getFriends(friends_list[i])

\* count_triangles_in_friend_neighborhood, for the sorted list friends_list
count_triangles_in_friend_neighborhood(friends_list) ==
    LET n == Len(friends_list)
    IN IF n < 2 THEN 0
       ELSE Cardinality({pr \in (1..n) \X (1..n) :
                            /\ pr[1] < pr[2]
                            /\ getFriendCount(friends_list[pr[1]]) >= 2
                            /\ PairCounted(friends_list, pr[1], pr[2])})

\* the metrics built from the results of the closeness loop and of the
\* triangle count, with the caches the loop leaves in path_calculator
MetricsOf(user_id, closeness, friends, triangle_count) ==
    [caches |-> closeness.caches,
     metrics |->
        [called |-> TRUE, user_id |-> user_id, raw_degree |-> getFriendCount(user_id),
         degree_centrality |->
             IF Cardinality(DOMAIN nodes) - 1 > 0
             THEN (1000 * getFriendCount(user_id)) \div (Cardinality(DOMAIN nodes) - 1)
             ELSE 0,
         closeness_centrality |->
             IF closeness.reachable_count > 0
             THEN (1000 * closeness.reachable_count)
                      \div (closeness.reachable_count + closeness.total_distance)
             ELSE 1000,
         triangle_count |-> IF friends < 2 THEN 0 ELSE triangle_count,
         clustering_coefficient |->
             IF friends < 2 THEN 0
             ELSE IF (friends * (friends - 1)) \div 2 > 0
                  THEN (1000 * triangle_count) \div ((friends * (friends - 1)) \div 2)
             ELSE 0,
         betweenness_centrality |-> 0]]

\* calculate_metrics(user_id)
calculate_metrics(user_id, order, friends_list) ==
    MetricsOf(user_id,
              ClosenessLoop(user_id, order, 1,
                            [cache |-> cache, result_cache |-> result_cache], 0, 0),
              Len(friends_list),
              count_triangles_in_friend_neighborhood(friends_list))

CalculateMetrics ==
    /\ calls < MaxMetricsCalls
    /\ \E user_id \in MemberIds, order \in Orders(DOMAIN nodes) :
          \E friends_list \in DegreeSorted(getFriends(user_id)) :
             \E r \in {calculate_metrics(user_id, order, friends_list)} :
                /\ metrics' = r.metrics
                /\ cache' = r.caches.cache
                /\ result_cache' = r.caches.result_cache
    /\ calls' = calls + 1
    /\ UNCHANGED <<graphVars, mutualVars, scoreVars, path_result, communityVars, rankVars,
                   threadVars, pagerankVars, recommenderVars, searchVars, serverVars>>

\* graphs of friendships: every pair is unrelated or follows both ways
InitCentrality ==
    InitMembers({"none", "both"}, {CHOOSE mp \in MemberProfiles : mp.longitude[1] = 0})

NextCentrality == CalculateMetrics

SpecCentrality == InitCentrality /\ [][NextCentrality]_vars

-----------------------------------------------------------------------------
(* Claims about SocialGraph *)

\* a step that is a call of `op` returning false
FailedCall(op) == loads' = loads + 1 /\ lastOp'.op = op /\ ~lastOp'.ret

QueryableUnchanged == nodes' = nodes /\ edges' = edges /\ metadata' = metadata

\* C8: initializeGraph is all-or-nothing: when it returns false the node map
\* (with the neighbor sets), the edge list and the metadata are what they were
\* before the call.
C8_InitializeAllOrNothing ==
    [][FailedCall("initializeGraph") => QueryableUnchanged]_vars

\* C9: when updateGraph returns false, whichever load step failed, the nodes
\* (with their neighbor sets), the edge list and the metadata equal their
\* values before the call.
C9_UpdateFailureRestores ==
    [][FailedCall("updateGraph") => QueryableUnchanged]_vars

\* C9 witness: an updateGraph that got as far as the metadata step failed on a
\* graph that had neighbor sets and metadata of an earlier successful load.
C9_Witness ==
    /\ lastOp.op = "updateGraph"
    /\ ~lastOp.ret
    /\ lastOp.failed = "metadata"
    /\ metadata.date = "d2"
    /\ \E a \in DOMAIN nodes : nodes[a].neighbors # {}

\* C10: the neighbor relation is symmetric in every reachable state: for all
\* nodes A and B of the graph, B in neighbors(A) implies A in neighbors(B).
C10_NeighborsSymmetric ==
    \A a \in DOMAIN nodes : \A b \in DOMAIN nodes :
        b \in nodes[a].neighbors => a \in nodes[b].neighbors

-----------------------------------------------------------------------------
(* Claims about FriendshipScoreCalculator *)

InternalFrames == {i \in DOMAIN stack : stack[i].fn = "calculateScoreInternal"}

\* C1: calculateScore terminates because the recursive sub-scoring is capped at
\* depth 2: the chain of nested calculateScoreInternal calls never holds more
\* than the calls of depth 0, 1, 2 and the one beyond the cap that returns 1.5.
C1_RecursionDepthCapped ==
    Cardinality(InternalFrames) <= DepthCap + 2

\* C2: whenever calculateScore returns, friends score within [1.0, 2.0] and
\* non-friends within [2.0, 3.0]; an absent user gives are_friends = false and 3.0.
C2_RangePartition ==
    score_result.called =>
        LET r == score_result.result
        IN /\ r.are_friends => (1000 <= r.friendship_score /\ r.friendship_score <= 2000)
           /\ ~r.are_friends => (2000 <= r.friendship_score /\ r.friendship_score <= 3000)
           /\ (score_result.node1 \notin DOMAIN nodes \/ score_result.node2 \notin DOMAIN nodes)
                  => (~r.are_friends /\ r.friendship_score = 3000)

\* C2 witness: calculateScore returned for two friends whose factors (2000
\* messages, an old connection, same place, five shared interests) sum to a raw
\* score below 1.0, and the score is 1.0.
C2_Witness ==
    /\ score_result.called
    /\ score_result.result.are_friends
    /\ score_result.result.message_count = 2000
    /\ score_result.result.time_factor = 1000
    /\ score_result.result.common_interests_count = 5
    /\ score_result.result.friendship_score = 1000

-----------------------------------------------------------------------------
(* Claims about MutualFriendsAnalyzer *)

\* C3: for existing users u1 and u2, analyze(u1,u2).mutual_ids holds exactly the
\* members of getFriends(u1) \cap getFriends(u2), each once.
C3_MutualIdsAreIntersection ==
    mf_result.called =>
        LET r == mf_result.result
        IN (getNode(r.user_id_1) /\ getNode(r.user_id_2)) =>
              /\ Range(r.mutual_ids) = getFriends(r.user_id_1) \cap getFriends(r.user_id_2)
              /\ Cardinality(Range(r.mutual_ids)) = Len(r.mutual_ids)

\* C4: the set of mutual friend IDs returned by analyze(A,B) is the set returned
\* by analyze(B,A).
C4_MutualIdsSymmetric ==
    mf_result.called =>
        LET r == mf_result.result
        IN \A j1 \in Indeterminate, j2 \in Indeterminate :
              Range(r.mutual_ids) = Range(analyze(r.user_id_2, r.user_id_1, j1, j2).mutual_ids)

-----------------------------------------------------------------------------
(* Claims about OptimizedDistanceCalculator *)

\* the users reachable from the set seen by following out-edges
RECURSIVE ReachableFrom(_)
ReachableFrom(seen) ==
    LET next == seen \cup UNION {getFollowing(u) : u \in seen}
    IN IF next = seen THEN seen ELSE ReachableFrom(next)

\* the minimum number of hops from the set seen (at distance d) to t
RECURSIVE HopsFrom(_, _, _)
HopsFrom(seen, t, d) ==
    IF t \in seen THEN d
    ELSE HopsFrom(seen \cup UNION {getFollowing(u) : u \in seen}, t, d + 1)

MinHops(s, t) == HopsFrom({s}, t, 0)

\* a step that is a find_path call on a calculator whose caches are empty
FindPathOnEmptyCache ==
    /\ cache = << >> /\ result_cache = << >>
    /\ calls' = calls + 1
    /\ path_result'.op = "find_path"

\* C5: every find_path(s,t) result with path_exists = true, computed or served
\* from the cache, has s as its first and t as its last node.
C5_PathRunsSourceToTarget ==
    (path_result.called /\ path_result.op = "find_path" /\ path_result.result.path_exists) =>
        /\ path_result.result.path_node_ids # << >>
        /\ Head(path_result.result.path_node_ids) = path_result.source
        /\ path_result.result.path_node_ids[Len(path_result.result.path_node_ids)]
               = path_result.target

\* C6: on an empty cache, if t is reachable from s along out-edges, find_path(s,t)
\* returns path_exists = true with path_length the minimum number of hops.
C6_ShortestWhenReachable ==
    [][(FindPathOnEmptyCache
          /\ path_result'.target \in ReachableFrom({path_result'.source}))
       => (/\ path_result'.result.path_exists
           /\ path_result'.result.path_length
                  = MinHops(path_result'.source, path_result'.target))]_vars

\* C7: on an empty cache, if s # t and t is not reachable from s along out-edges,
\* find_path(s,t) returns path_exists = false and an empty node list.
C7_NoPathWhenUnreachable ==
    [][(FindPathOnEmptyCache
          /\ path_result'.source # path_result'.target
          /\ path_result'.target \notin ReachableFrom({path_result'.source}))
       => (/\ ~path_result'.result.path_exists
           /\ path_result'.result.path_node_ids = << >>)]_vars

-----------------------------------------------------------------------------
(* Claims about a successful update *)

\* the user ids a nodes source lists
FileUserIds(nf) == {nf.entries[i].user_id : i \in 1..Len(nf.entries)}

\* the adjacency derived from the edges of an edges source over a node set
DerivedNeighbors(ef, ids, a) ==
    {b \in ids : \E i \in 1..Len(ef.entries) :
        \/ (ef.entries[i].source = a /\ ef.entries[i].target = b)
        \/ (ef.entries[i].source = b /\ ef.entries[i].target = a)}

\* the step is a successful updateGraph(nf, ef, mf)
SuccessfulUpdateWith(nf, ef, mf) ==
    LET r == updateGraphOn(CurrentStore, nf, ef, mf, loads + 1)
    IN /\ lastOp' = [op |-> "updateGraph", ret |-> TRUE, failed |-> "none"]
       /\ r.ret
       /\ Store(nodes', edges', metadata', last_update') = r.store

\* C11: a successful updateGraph replaces the graph wholesale: afterwards the
\* node set is exactly the node set of the new nodes source and every
\* neighbor set is the one derived from the new edges, so a user absent from
\* the new data is no longer in the graph
C11_UpdateReplacesWholesale ==
    [][\A nf \in StoreNodeFiles, ef \in StoreEdgeFiles, mf \in StoreMetadataFiles :
          SuccessfulUpdateWith(nf, ef, mf) =>
              /\ DOMAIN nodes' = FileUserIds(nf)
              /\ \A a \in DOMAIN nodes' :
                    nodes'[a].neighbors = DerivedNeighbors(ef, FileUserIds(nf), a)]_vars

-----------------------------------------------------------------------------
(* Claims about CommunityDetector *)

\* the users listed by the communities of a result, with repetitions
RECURSIVE AllMembers(_)
AllMembers(result) ==
    IF result = << >> THEN << >> ELSE Head(result).member_ids \o AllMembers(Tail(result))

RECURSIVE SumSizes(_)
SumSizes(result) == IF result = << >> THEN 0 ELSE Head(result).size + SumSizes(Tail(result))

\* C12: the communities returned by detect_label_propagation and by
\* detect_greedy_modularity partition the node set: every node is a member of
\* exactly one community, each size is the number of members, and the sizes
\* sum to the node count
C12_CommunitiesPartitionNodes ==
    communities.called =>
        LET all == AllMembers(communities.result)
        IN /\ Range(all) = DOMAIN nodes
           /\ Len(all) = Cardinality(DOMAIN nodes)
           /\ \A k \in 1..Len(communities.result) :
                 communities.result[k].size = Len(communities.result[k].member_ids)
           /\ SumSizes(communities.result) = Cardinality(DOMAIN nodes)

\* both detectors have split a graph whose neighbor relation is not symmetric
\* into more than one community
C12_Witness ==
    /\ communities.called
    /\ Len(communities.result) = 2
    /\ \E a \in DOMAIN nodes, b \in DOMAIN nodes :
          b \in nodes[a].neighbors /\ a \notin nodes[b].neighbors

-----------------------------------------------------------------------------
(* Claims about InfluencerRanker *)

\* all users sorted by influence score descending, ties by user ID ascending
FullRanking(pagerank_iterations) ==
    SortByRank({RankEntry(id, calculate(DampingPercent, pagerank_iterations)) : id \in DOMAIN nodes})

\* C13: get_leaderboard(top_k) with top_k > 0 returns exactly the first
\* min(top_k, N) entries of the full ranking (score descending, ties broken by
\* user ID ascending), the entry at position i carrying rank i+1
C13_LeaderboardIsTopOfFullSort ==
    (leaderboard.called /\ leaderboard.top_k > 0) =>
        LET full == FullRanking(leaderboard.pagerank_iterations)
            n == Min(leaderboard.top_k, Len(full))
        IN /\ Len(leaderboard.result) = n
           /\ \A i \in 1..n :
                 /\ leaderboard.result[i].user_id = full[i].user_id
                 /\ leaderboard.result[i].influence_score = full[i].influence_score
                 /\ leaderboard.result[i].rank = i

-----------------------------------------------------------------------------
(* More claims about OptimizedDistanceCalculator *)

\* the last call was find_path
FindPathReturned == path_result.called /\ path_result.op = "find_path"

C16_LengthIsSizeMinusOne ==
    FindPathReturned =>
        path_result.result.path_length = Len(path_result.result.path_node_ids) - 1

\* find_path has answered "no path" as the last of several calls, the cache
\* holding one pair
C16_Witness ==
    /\ FindPathReturned
    /\ ~path_result.result.path_exists
    /\ calls = MaxCalls
    /\ Cardinality(DOMAIN result_cache) = 1

\* C17: find_path(s,t) returns the same result whatever was asked before on
\* the same calculator: the answer, cached or not, is the one computed on an
\* empty cache
C17_AnswerIndependentOfHistory ==
    FindPathReturned =>
        path_result.result = compute_path_internal(path_result.source, path_result.target)

-----------------------------------------------------------------------------
(* More claims about MutualFriendsAnalyzer *)

\* C18: for every pair of user IDs, existing or not, equal or distinct,
\* analyze(u1,u2).similarity_ratio lies in [0,1]
C18_SimilarityRatioInUnitRange ==
    mf_result.called =>
        /\ 0 <= mf_result.result.similarity_ratio
        /\ mf_result.result.similarity_ratio <= 1000

\* analyze has returned the ratio 1.0 for two different users
C18_Witness ==
    /\ mf_result.called
    /\ mf_result.result.user_id_1 # mf_result.result.user_id_2
    /\ mf_result.result.similarity_ratio = 1000

\* C19: for every user A of the graph, with any number (>= 0) of friends,
\* analyze(A,A) has similarity_ratio exactly 1.0
C19_SelfSimilarityIsOne ==
    (/\ mf_result.called
     /\ mf_result.result.user_id_1 = mf_result.result.user_id_2
     /\ getNode(mf_result.result.user_id_1)) =>
        mf_result.result.similarity_ratio = 1000

\* C20: if either user ID is absent from the graph, analyze returns a
\* zero-valued result: no mutual IDs, ratio 0.0, both degrees 0, IDs echoed
C20_AbsentUserZeroResult ==
    (/\ mf_result.called
     /\ (~getNode(mf_result.result.user_id_1) \/ ~getNode(mf_result.result.user_id_2))) =>
        /\ mf_result.result.mutual_ids = << >>
        /\ mf_result.result.similarity_ratio = 0
        /\ mf_result.result.total_degree_1 = 0
        /\ mf_result.result.total_degree_2 = 0

-----------------------------------------------------------------------------
(* Claims about calculators shared by request threads *)

\* C14: with one calculator instance shared by concurrent request threads,
\* accesses to the path/distance cache and to the score cache are guarded: in
\* no state is one thread about to insert into a cache while another thread
\* is about to read or write the same cache
C14_CacheAccessesGuarded ==
    \A t \in Threads : ~RacesOnWrite(t)

-----------------------------------------------------------------------------
(* Claims about PageRankCalculator *)

\* what the truncating divisions of the fixed-point model can lose or add:
\* one unit per node at initialisation, and per iteration at most two units
\* for every contribution and one for every base score
RoundingSlack(node_count, iteration_count) ==
    node_count + iteration_count * node_count * (2 * node_count + 1)

\* C21: for a graph with at least one node, any damping factor in [0,1] and
\* any iteration count >= 1, the scores returned by calculate sum to 1 (up to
\* rounding), and on a one-node graph the single score is exactly 1
C21_RanksSumToOne ==
    (ranks.called /\ ranks.iteration_count >= 1 /\ DOMAIN nodes # {}) =>
        LET sum == SumOver(ranks.result, DOMAIN ranks.result)
            slack == RoundingSlack(Cardinality(DOMAIN nodes), ranks.iteration_count)
        IN /\ DOMAIN ranks.result = DOMAIN nodes
           /\ sum >= RankUnit - slack
           /\ sum <= RankUnit + slack
           /\ Cardinality(DOMAIN nodes) = 1 =>
                  \A id \in DOMAIN nodes : ranks.result[id] = RankUnit

\* calculate has run two iterations or more on a graph that has a user who
\* follows nobody and a user who follows somebody
C21_Witness ==
    /\ ranks.called /\ ranks.iteration_count >= 2
    /\ ranks.damping_factor = DampingPercent
    /\ \E a, b \in DOMAIN nodes : getFollowing(a) = {} /\ getFollowing(b) # {}

-----------------------------------------------------------------------------
(* Claims about the communities of CommunityDetector *)

\* the users linked to the users of S by a path of neighbor relations, the
\* relation read in either direction
RECURSIVE LinkedTo(_)
LinkedTo(S) ==
    LET next == {v \in DOMAIN nodes :
                    \E u \in S : v \in getNeighbors(u) \/ u \in getNeighbors(v)} \ S
    IN IF next = {} THEN S ELSE LinkedTo(S \cup next)

SameCommunity(result, a, b) ==
    \E k \in 1..Len(result) : {a, b} \subseteq Range(result[k].member_ids)

\* C22: detect_greedy_modularity returns the connected components of the
\* undirected neighbor graph: two users are members of the same community if
\* and only if a path of neighbor relations links them
C22_CommunitiesAreComponents ==
    (communities.called /\ communities.op = "detect_greedy_modularity") =>
        \A a, b \in DOMAIN nodes :
            SameCommunity(communities.result, a, b) <=> b \in LinkedTo({a})

\* the same, for graphs whose neighbor relation is symmetric
C22_ComponentsOfSymmetricGraph ==
    (/\ communities.called /\ communities.op = "detect_greedy_modularity"
     /\ \A u, v \in DOMAIN nodes : v \in getNeighbors(u) => u \in getNeighbors(v)) =>
        \A a, b \in DOMAIN nodes :
            SameCommunity(communities.result, a, b) <=> b \in LinkedTo({a})

-----------------------------------------------------------------------------
(* Claims about FriendRecommender *)

\* C23: for an existing target user and every k, each user returned by
\* get_recommendations(target, k) is a friend of some friend of the target,
\* is not the target and is not in the target's friend set
C23_RecommendationsAreNewFriendsOfFriends ==
    (recommendations.called /\ getNode(recommendations.target_user_id)) =>
        LET target == recommendations.target_user_id
        IN \A i \in 1..Len(recommendations.result) :
              LET c == recommendations.result[i].recommended_user_id
              IN /\ \E f \in getFriends(target) : c \in getFriends(f)
                 /\ c # target
                 /\ c \notin getFriends(target)

\* a call has returned a recommendation for a target two of whose friends
\* are friends of each other: a friend of a friend who had to be left out
C23_Witness ==
    /\ recommendations.called /\ getNode(recommendations.target_user_id)
    /\ Len(recommendations.result) >= 1
    /\ \E f, g \in getFriends(recommendations.target_user_id) : g \in getFriends(f)

-----------------------------------------------------------------------------
(* Claims about UserSearchIndex *)

\* the users whose lower-cased name starts with the lower-cased prefix
Matching(prefix) ==
    {id \in DOMAIN nodes : StartsWith(toLower(nodes[id].name), toLower(prefix))}

\* C24: after buildIndex, for a non-empty prefix and a limit >= 0, search
\* returns at most limit user IDs, without duplicates, each of a user whose
\* lower-cased name starts with the lower-cased prefix; with an empty prefix
\* or before buildIndex it returns the empty list
C24_SearchReturnsMatchesUpToLimit ==
    search_result.called =>
        IF ~search_result.isBuilt \/ search_result.prefix = << >>
        THEN search_result.result = << >>
        ELSE search_result.limit >= 0 =>
                /\ Len(search_result.result) <= search_result.limit
                /\ \A i, j \in DOMAIN search_result.result :
                      i # j => search_result.result[i] # search_result.result[j]
                /\ Range(search_result.result) \subseteq Matching(search_result.prefix)

\* a search on a built index has been cut at its limit, for an upper-case
\* prefix matched by a user who is stored at a node and at a child of it
C24_Witness ==
    /\ search_result.called /\ search_result.isBuilt
    /\ search_result.prefix = <<65>>
    /\ Len(search_result.result) = search_result.limit
    /\ search_result.limit = 2
    /\ Cardinality(Matching(search_result.prefix)) > 2
    /\ \E id \in Range(search_result.result) : Len(nodes[id].name) = 2

\* C30: search is complete up to its limit: after buildIndex, if
\* search(prefix, limit) returns fewer than limit IDs for a non-empty prefix,
\* it has returned every user whose lower-cased name starts with the
\* lower-cased prefix, however many users share the prefix
C30_SearchCompleteBelowLimit ==
    (/\ search_result.called /\ search_result.isBuilt
     /\ search_result.prefix # << >>
     /\ Len(search_result.result) < search_result.limit) =>
        Matching(search_result.prefix) \subseteq Range(search_result.result)

-----------------------------------------------------------------------------
(* Claims about SimpleHTTPServer *)

\* C25: one engine instance per snapshot, cached by its date: for each date
\* at most one GraphContext is ever loaded and every request for the date is
\* served by the same instance, also when the first requests for the date
\* arrive on different threads at the same time
C25_OneContextPerDate ==
    /\ \A i, j \in DOMAIN contexts : contexts[i] = contexts[j] => i = j
    /\ \A t, u \in Threads :
          (/\ request[t].at = "served" /\ request[u].at = "served"
           /\ request[t].date = request[u].date) =>
              request[t].context = request[u].context

\* C26: for both detection strategies and every returned community,
\* internal_edge_density lies in [0,1]: the internal neighbor links counted
\* are never more than C(|members|,2), and a community of fewer than two
\* members has density 0
C26_DensityInUnitRange ==
    communities.called =>
        \A k \in 1..Len(communities.result) :
            LET comm == communities.result[k]
            IN /\ comm.internal_edge_density >= 0
               /\ comm.internal_edge_density <= 1000
               /\ 2 * InternalEdges(comm.member_ids) <= comm.size * (comm.size - 1)
               /\ comm.size < 2 => comm.internal_edge_density = 0

\* a detector has returned a community of one member together with a
\* community of two or more members that has internal links
C26_Witness ==
    /\ communities.called
    /\ \E k, l \in 1..Len(communities.result) :
          /\ communities.result[k].size = 1
          /\ communities.result[l].size >= 2
          /\ communities.result[l].internal_edge_density > 0

\* how often label l occurs among the labels of the neighbors of id
NeighborLabels(labels, id, l) ==
    Cardinality({n \in getNeighbors(id) : labels[n] = l})

\* C27: detect_label_propagation(max_iterations) runs at most max_iterations
\* rounds and stops after the first round in which no label changed; when it
\* stops for that reason the labelling is stable: every node with a neighbor
\* carries a label that is most frequent among its neighbors' labels, the
\* smallest such label on ties
C27_PropagationStopsWhenStable ==
    (communities.called /\ communities.op = "detect_label_propagation") =>
        LET changes == communities.loop.changes
            labels == communities.loop.labels
        IN /\ Len(changes) <= Max(0, communities.max_iterations)
           /\ \A i \in 1..(Len(changes) - 1) : changes[i]
           /\ Len(changes) < communities.max_iterations => ~changes[Len(changes)]
           /\ (changes # << >> /\ ~changes[Len(changes)]) =>
                 \A id \in DOMAIN nodes :
                     getNeighbors(id) # {} =>
                         \A n \in getNeighbors(id) :
                             \/ NeighborLabels(labels, id, labels[n])
                                   < NeighborLabels(labels, id, labels[id])
                             \/ /\ NeighborLabels(labels, id, labels[n])
                                      = NeighborLabels(labels, id, labels[id])
                                /\ labels[id] <= labels[n]

\* the loop has stopped before max_iterations, after a round without a
\* change that followed a round with changes, on a node whose neighbors
\* carry two labels equally often
C27_Witness ==
    /\ communities.called /\ communities.op = "detect_label_propagation"
    /\ Len(communities.loop.changes) = 2
    /\ ~communities.loop.changes[2]
    /\ communities.max_iterations > 2
    /\ \E id \in DOMAIN nodes :
          \E n, m \in getNeighbors(id) :
              /\ communities.loop.labels[n] # communities.loop.labels[m]

-----------------------------------------------------------------------------
(* Claims about CentralityAnalyzer *)

\* the unordered pairs of friends of the user who are friends of each other
FriendPairs(user_id) ==
    {pr \in getFriends(user_id) \X getFriends(user_id) :
        pr[1] < pr[2] /\ pr[2] \in getFriends(pr[1])}

\* C28: for every user, the triangle count of
\* count_triangles_in_friend_neighborhood equals the number of unordered
\* pairs of the user's friends that are friends of each other, so
\* clustering_coefficient is that number divided by C(deg,2), and 0 when the
\* user has fewer than two friends
C28_TrianglesArePairsOfFriends ==
    metrics.called =>
        LET deg == Cardinality(getFriends(metrics.user_id))
            pairs == Cardinality(FriendPairs(metrics.user_id))
        IN IF deg < 2 THEN metrics.clustering_coefficient = 0
           ELSE /\ metrics.triangle_count = pairs
                /\ metrics.clustering_coefficient = (1000 * pairs) \div ((deg * (deg - 1)) \div 2)

\* calculate_metrics has run for a user with three friends of different
\* degrees, one of whom has no other friend and two of whom are friends
C28_Witness ==
    /\ metrics.called
    /\ Cardinality(getFriends(metrics.user_id)) = 3
    /\ metrics.triangle_count = 1
    /\ \E f \in getFriends(metrics.user_id) : getFriendCount(f) = 1

-----------------------------------------------------------------------------
(* Claims about the paths of OptimizedDistanceCalculator *)

\* C29: whenever find_path(s,t) computes a result with path_exists = true on
\* an empty cache, the returned node sequence is a real directed path: every
\* node of it is followed by a node it follows, also in the half of the path
\* that was reconstructed from the search started at the target
C29_PathFollowsOutEdges ==
    [][(FindPathOnEmptyCache /\ path_result'.result.path_exists)
       => \A i \in 1..(Len(path_result'.result.path_node_ids) - 1) :
              path_result'.result.path_node_ids[i + 1]
                  \in getFollowing(path_result'.result.path_node_ids[i])]_vars

====
